---- MODULE Spec2Model ----
(***************************************************************************)
(* Model of cosmostrix: the droplet state machine (src/src/droplet.rs),    *)
(* the cloud orchestration (src/src/cloud.rs), the key handlers of the     *)
(* frame loop (src/src/main.rs) and the diffing terminal writer            *)
(* (src/src/terminal.rs).                                                  *)
(*                                                                         *)
(* Time is counted in milliseconds.  Glyph quantities that the code keeps  *)
(* as f32 are kept as exact thousandths of a glyph, speeds as glyphs per   *)
(* second, so  speed * elapsed_ms  is a number of thousandths.             *)
(***************************************************************************)
EXTENDS Integers, Sequences, FiniteSets, TLC

\* ------------------------------------------------------------------ bounds

\* Instants handed out by Instant::now() stay within 0..MaxTime.
MaxTime == 6
\* The longest time between two consecutive readings of the clock.
MaxDt == 2
\* The resize events of one run.
MaxResizes == 1
\* The runs that follow one droplet from its spawn to its death last DropMaxTime
\* ms; in them the clock can also jump by StallMs, a frame that took long.
DropMaxTime == 70
StallMs == 66
\* The runs over a glyph pool of several entries last SkipMaxTime ms.
SkipMaxTime == 4
\* The runs with the speed keys last SpeedMaxTime ms, and the Down key is
\* followed down to MinSpeed glyphs per second.
SpeedMaxTime == 2
MinSpeed == 999
\* The runs that follow one droplet under a fair frame loop last LiveMaxTime ms.
LiveMaxTime == 40

\* The configurations the program is started in: the viewport the host terminal
\* reports (cols, lines), --speed (glyphs per second), --density (in hundredths),
\* --maxdpc (max_droplets_per_column) and --lingerms (low, high).
\* The first has two columns of at most one droplet each; the second has one
\* column that holds two droplets at a time and spawns four times as fast.
Configs ==
    { [ cols |-> 2, lines |-> 3, speed |-> 1000, density |-> 100, maxdpc |-> 1,
        linger |-> <<2, 2>> ],
      [ cols |-> 1, lines |-> 4, speed |-> 1000, density |-> 400, maxdpc |-> 2,
        linger |-> <<2, 2>> ] }
\* Samples of rand_chance (Uniform [0,1)), in thousandths.
ChanceSamples == { 0, 500, 999 }
\* Thousandths of a glyph in one glyph; milliseconds in one second.
Milli == 1000

\* ------------------------------------------------------------- primitives

None == -1
U16Max == 65535

Min(a, b) == IF a <= b THEN a ELSE b
Max(a, b) == IF a >= b THEN a ELSE b

\* The element of a one-element set: The({ e(v) : v \in { x } }) is e(x) with x
\* computed once.
The(S) == CHOOSE v \in S : TRUE

IsSome(x) == x # None

\* u16::saturating_add / saturating_sub
SatAdd(a, b) == Min(a + b, U16Max)
SatSub(a, b) == Max(a - b, 0)

\* Instant::saturating_duration_since
DurationSince(now, earlier) == Max(now - earlier, 0)

\* f32::round of 1.5 * cols (half away from zero)
PoolSize(c) == (3 * c + 1) \div 2

\* ------------------------------------------------------------------ cells

\* Option<Color>::None, and the colors cells carry.
NoColor == "none"
Colors == { NoColor, "green", "black" }

\* Cell::blank_with_bg, terminal::blank_cell
BlankCell(bg) == [ ch |-> " ", fg |-> NoColor, bg |-> bg, bold |-> FALSE ]

\* Palettes of 1 to 4 colors, as build_palette gives them (never empty).
PaletteSizes == 1 .. 4
PaletteOf(n) == SubSeq(<<"c0", "c1", "c2", "c3">>, 1, n)

\* Cloud::fill_color_map, lines 470-472: the range the entries are drawn from.
ColorMapRange(n) ==
    IF n < 3 THEN { 0 } ELSE IF n = 3 THEN { 1 } ELSE 1 .. (n - 2)

\* ------------------------------------------------------------- attributes

\* DrawCtx::is_bright: since / between <= 0.25
IsBright(ctx, now) ==
    IF now < ctx.last_glitch_time THEN FALSE
    ELSE LET since == DurationSince(now, ctx.last_glitch_time)
             between == DurationSince(ctx.next_glitch_time, ctx.last_glitch_time)
         IN  IF between <= 0 THEN FALSE ELSE 4 * since <= between

\* DrawCtx::is_dim: since / between >= 0.75
IsDim(ctx, now) ==
    IF now > ctx.next_glitch_time THEN TRUE
    ELSE LET since == DurationSince(now, ctx.last_glitch_time)
             between == DurationSince(ctx.next_glitch_time, ctx.last_glitch_time)
         IN  IF between <= 0 THEN TRUE ELSE 4 * since >= 3 * between

\* slice::get(idx).copied().unwrap_or(dflt) on a sequence whose element idx + 1
\* is the code's element idx.
GetOr(seq, idx, dflt) == IF idx + 1 \in DOMAIN seq THEN seq[idx + 1] ELSE dflt

\* f32::round of num / den for den > 0: to the nearest integer, halves away
\* from zero.
RoundDiv(num, den) ==
    IF num >= 0 THEN (2 * num + den) \div (2 * den)
    ELSE -((2 * (-num) + den) \div (2 * den))

\* DrawCtx::get_attr, lines 99-102: bold before the overrides.
BaseBold(ctx, line, val) ==
    ctx.bold_mode = "Random" /\ (line % 2) # (val % 2)

\* DrawCtx::get_attr, lines 104-114: the color index before the glitch: the
\* entry of the color map, or under distance shading
\* round((n - 1) - dist / len * (n - 1)).
BaseColorIdx(ctx, line, col, head_put_line, length) ==
    IF ctx.shading_distance
    THEN LET n == Max(Len(ctx.palette_colors), 1)
             dist == SatSub(head_put_line, line)
             len == Max(length, 1)
         IN  RoundDiv((n - 1) * (len - dist), len)
    ELSE GetOr(ctx.color_map, col * ctx.lines + line, 0)

\* ClampMiddle that leaves the index as computed.
ClampMiddleNot(color_idx, last) == color_idx

\* DrawCtx::get_attr, line 136: color_idx.clamp(0, last.max(0))
ClampMiddle(color_idx, last) == Max(0, Min(color_idx, Max(last, 0)))

\* LocOverride that treats a Head cell as a Middle one.
LocOverrideHeadAsMiddle(loc, color_idx, bold, last) ==
    IF loc = "Tail" THEN [ color_idx |-> 0, bold |-> FALSE ]
    ELSE [ color_idx |-> ClampMiddle(color_idx, last), bold |-> bold ]

\* LocOverride that leaves a Tail cell the index computed for it.
LocOverrideTailKeeps(loc, color_idx, bold, last) ==
    CASE loc = "Tail" -> [ color_idx |-> color_idx, bold |-> FALSE ]
      [] loc = "Head" -> [ color_idx |-> last, bold |-> TRUE ]
      [] OTHER -> [ color_idx |-> ClampMiddle(color_idx, last), bold |-> bold ]

\* DrawCtx::get_attr, lines 126-138: the override of the cell's location.
LocOverride(loc, color_idx, bold, last) ==
    CASE loc = "Tail" -> [ color_idx |-> 0, bold |-> FALSE ]
      [] loc = "Head" -> [ color_idx |-> last, bold |-> TRUE ]
      [] OTHER -> [ color_idx |-> ClampMiddle(color_idx, last), bold |-> bold ]

\* DrawCtx::get_attr, lines 140-144: the bold mode forces the final value.
ForceBold(bold_mode, bold) ==
    IF bold_mode = "Off" THEN FALSE
    ELSE IF bold_mode = "All" THEN TRUE
    ELSE bold

\* DrawCtx::get_attr: the foreground and the bold flag of a glyph, with the
\* final color index.
GetAttr(ctx, line, col, val, loc, now, head_put_line, length) ==
    LET bold0 == BaseBold(ctx, line, val)
        idx0 == BaseColorIdx(ctx, line, col, head_put_line, length)
        glitched == ctx.glitchy /\ GetOr(ctx.glitch_map, col * ctx.lines + line, FALSE)
        bright == glitched /\ IsBright(ctx, now)
        dim == glitched /\ ~bright /\ IsDim(ctx, now)
        idx1 == IF bright THEN idx0 + 1 ELSE IF dim THEN idx0 - 1 ELSE idx0
        bold1 == IF bright THEN TRUE ELSE IF dim THEN FALSE ELSE bold0
        last == SatSub(Len(ctx.palette_colors), 1)
        o == LocOverride(loc, idx1, bold1, last)
    IN  [ fg |-> IF ctx.color_mode = "Mono" THEN NoColor
                 ELSE GetOr(ctx.palette_colors, o.color_idx, NoColor),
          bold |-> ForceBold(ctx.bold_mode, o.bold),
          color_idx |-> o.color_idx ]

\* ---------------------------------------------------------------- droplet

\* Droplet::new
NewDroplet ==
    [ is_alive |-> FALSE, is_head_crawling |-> FALSE, is_tail_crawling |-> FALSE,
      bound_col |-> U16Max, head_put_line |-> 0, head_cur_line |-> 0,
      tail_put_line |-> None, tail_cur_line |-> 0,
      end_line |-> U16Max, char_pool_idx |-> U16Max, length |-> U16Max,
      chars_per_sec |-> 0,
      advance_remainder |-> 0, last_time |-> None, head_stop_time |-> None,
      time_to_linger |-> 0 ]

\* Droplet::activate
Activate(d, now) ==
    [ d EXCEPT !.is_alive = TRUE, !.is_head_crawling = TRUE,
               !.is_tail_crawling = TRUE, !.advance_remainder = 0,
               !.last_time = now ]

\* IncrementTime that shifts last_time only.
IncrementTimeLastOnly(d, delta) ==
    [ d EXCEPT !.last_time = IF IsSome(@) THEN @ + delta ELSE @ ]

\* Droplet::increment_time
IncrementTime(d, delta) ==
    [ d EXCEPT !.last_time = IF IsSome(@) THEN @ + delta ELSE @,
               !.head_stop_time = IF IsSome(@) THEN @ + delta ELSE @ ]

\* AdvanceTotal that drops the carried remainder.
AdvanceTotalNoCarry(d, now) ==
    Max(d.chars_per_sec * DurationSince(now, d.last_time), 0)

\* Droplet::advance, lines 84-90: the thousandths of a glyph due at `now`.
AdvanceTotal(d, now) ==
    d.advance_remainder + Max(d.chars_per_sec * DurationSince(now, d.last_time), 0)

\* `whole as u16` (a saturating cast)
CharsAdvanced(d, now) == Min(AdvanceTotal(d, now) \div Milli, U16Max)

\* AdvanceHead without the clamp to end_line.
AdvanceHeadUnclamped(d, now, chars_advanced) ==
    IF ~d.is_head_crawling THEN d
    ELSE LET hp == SatAdd(d.head_put_line, chars_advanced)
             first == d.head_stop_time = None
         IN  IF hp < d.end_line
             THEN [ d EXCEPT !.head_put_line = hp ]
             ELSE [ d EXCEPT !.head_put_line = hp,
                             !.is_head_crawling = FALSE,
                             !.head_stop_time = IF first THEN now ELSE @,
                             !.is_tail_crawling =
                                 IF first /\ d.time_to_linger > 0 THEN FALSE ELSE @ ]

\* AdvanceHead that records the stop but leaves the head crawling.
AdvanceHeadKeepsCrawling(d, now, chars_advanced) ==
    IF ~d.is_head_crawling THEN d
    ELSE LET hp == Min(SatAdd(d.head_put_line, chars_advanced), d.end_line)
             first == d.head_stop_time = None
         IN  IF hp # d.end_line
             THEN [ d EXCEPT !.head_put_line = hp ]
             ELSE [ d EXCEPT !.head_put_line = hp,
                             !.head_stop_time = IF first THEN now ELSE @,
                             !.is_tail_crawling =
                                 IF first /\ d.time_to_linger > 0 THEN FALSE ELSE @ ]

\* Droplet::advance, lines 96-111: the head step.
AdvanceHead(d, now, chars_advanced) ==
    IF ~d.is_head_crawling THEN d
    ELSE LET hp == Min(SatAdd(d.head_put_line, chars_advanced), d.end_line)
             first == d.head_stop_time = None
         IN  IF hp # d.end_line
             THEN [ d EXCEPT !.head_put_line = hp ]
             ELSE [ d EXCEPT !.head_put_line = hp,
                             !.is_head_crawling = FALSE,
                             !.head_stop_time = IF first THEN now ELSE @,
                             !.is_tail_crawling =
                                 IF first /\ d.time_to_linger > 0 THEN FALSE ELSE @ ]

\* TailMoves that does not wait for the head.
TailMovesAnywhere(d) == d.is_tail_crawling

\* Droplet::advance, line 113: the tail moves in this step.
TailMoves(d) ==
    d.is_tail_crawling
    /\ (d.head_put_line >= d.length \/ d.head_put_line >= d.end_line)

\* Droplet::advance, lines 114-123
NextTail(d, chars_advanced) ==
    Min(IF IsSome(d.tail_put_line) THEN SatAdd(d.tail_put_line, chars_advanced)
                                   ELSE chars_advanced,
        d.end_line)

\* Droplet::advance, lines 125-126
CrossesThreshold(d, next_tail, lines) ==
    d.tail_cur_line <= lines \div 4 /\ next_tail > lines \div 4

\* ResumeTail that does not wait for the linger to elapse.
ResumeTailAtOnce(d, now) ==
    IF ~d.is_tail_crawling /\ IsSome(d.head_stop_time)
    THEN [ d EXCEPT !.is_tail_crawling = TRUE ]
    ELSE d

\* Droplet::advance, lines 132-138
ResumeTail(d, now) ==
    IF ~d.is_tail_crawling /\ IsSome(d.head_stop_time)
       /\ DurationSince(now, d.head_stop_time) >= d.time_to_linger
    THEN [ d EXCEPT !.is_tail_crawling = TRUE ]
    ELSE d

\* MarkDead that leaves the droplet alive.
MarkDeadNever(d) == d

\* Droplet::advance, lines 140-142
MarkDead(d) ==
    IF d.tail_put_line = d.head_put_line THEN [ d EXCEPT !.is_alive = FALSE ] ELSE d

\* Droplet::advance: the droplet after the call, the value returned, the whole
\* number of glyphs of the step (chars_advanced) and the glyphs of `whole` that
\* the cast to u16 cut off.
Advance(d, now, lines) ==
    IF d.last_time = None
    THEN [ d |-> [ d EXCEPT !.last_time = now ], free |-> FALSE, whole |-> 0, cut |-> 0 ]
    ELSE
    LET chars_advanced == CharsAdvanced(d, now)
        cut == AdvanceTotal(d, now) \div Milli - chars_advanced
        d0 == [ d EXCEPT !.advance_remainder = AdvanceTotal(d, now) % Milli ]
    IN  IF chars_advanced = 0
        THEN [ d |-> [ d0 EXCEPT !.last_time = now ], free |-> FALSE, whole |-> 0,
               cut |-> cut ]
        ELSE
        LET d1 == AdvanceHead(d0, now, chars_advanced)
            moves == TailMoves(d1)
            next_tail == NextTail(d1, chars_advanced)
            d2 == IF moves THEN [ d1 EXCEPT !.tail_put_line = next_tail ] ELSE d1
        IN  IF moves /\ CrossesThreshold(d1, next_tail, lines)
            THEN [ d |-> [ d2 EXCEPT !.last_time = now ], free |-> TRUE,
                   whole |-> chars_advanced, cut |-> cut ]
            ELSE [ d |-> [ MarkDead(ResumeTail(d2, now)) EXCEPT !.last_time = now ],
                   free |-> FALSE, whole |-> chars_advanced, cut |-> cut ]

\* Draw that does not move tail_cur_line up to the tail put-line.
DrawKeepsTailCur(d) == [ d EXCEPT !.head_cur_line = d.head_put_line ]

\* Droplet::draw, lines 161-172 and 229: the bookkeeping of the drawn span.
Draw(d) ==
    [ d EXCEPT !.tail_cur_line = IF IsSome(d.tail_put_line) THEN d.tail_put_line ELSE @,
               !.head_cur_line = d.head_put_line ]

\* ------------------------------------------------------------------ frame

\* Frame::new: width, height and the row-major cells; cells[i + 1] is the
\* code's cells[i].  `written` is a log, not a field of Frame: the cells
\* Frame::set has stored since the log was last emptied, with their positions.
FrameNew(width, height, bg) ==
    [ width |-> width, height |-> height,
      cells |-> [ i \in 1 .. width * height |-> BlankCell(bg) ],
      written |-> {} ]

\* Frame::clear: clear_with_bg(None)
FrameClear(fr) == [ fr EXCEPT !.cells = [ i \in DOMAIN fr.cells |-> BlankCell(NoColor) ] ]

\* Frame::index, with None for a position outside the frame.
FrameIndex(fr, x, y) ==
    IF x >= fr.width \/ y >= fr.height THEN None ELSE y * fr.width + x

\* Frame::get: << >> for None, << cell >> for Some(cell).
FrameGet(fr, x, y) ==
    IF IsSome(FrameIndex(fr, x, y)) THEN << fr.cells[FrameIndex(fr, x, y) + 1] >> ELSE << >>

\* Frame::set: a position outside the frame is ignored.
FrameSet(fr, x, y, cell) ==
    IF IsSome(FrameIndex(fr, x, y))
    THEN [ fr EXCEPT !.cells[FrameIndex(fr, x, y) + 1] = cell,
                     !.written = @ \cup { [ x |-> x, y |-> y, cell |-> cell ] } ]
    ELSE fr

\* ------------------------------------------------------ drawing a droplet

\* The glyphs of the rain and the characters of the message, with `c as u32`.
Glyphs == { "0", "1" }
CharCode(ch) ==
    CASE ch = "0" -> 48 [] ch = "1" -> 49 [] ch = "H" -> 72 [] ch = "I" -> 73
      [] OTHER -> 32

\* Droplet::is_head_bright: how long a stopped head stays bright, in ms.
HeadBrightMs == 100

\* Droplet::is_head_bright
IsHeadBright(d, now) ==
    \/ d.is_head_crawling
    \/ IsSome(d.head_stop_time) /\ DurationSince(now, d.head_stop_time) <= HeadBrightMs

\* DrawCtx::is_glitched
IsGlitched(ctx, line, col) ==
    ctx.glitchy /\ GetOr(ctx.glitch_map, col * ctx.lines + line, FALSE)

\* DrawCtx::get_char
GetChar(ctx, line, char_pool_idx) ==
    GetOr(ctx.char_pool, (char_pool_idx + line) % Max(Len(ctx.char_pool), 1), "0")

\* Droplet::draw, lines 178-184: where in the droplet the row is.
RowLoc(d, line, now) ==
    IF line = d.head_put_line /\ IsHeadBright(d, now) THEN "Head"
    ELSE IF IsSome(d.tail_put_line) /\ line = d.tail_put_line + 1 THEN "Tail"
    ELSE "Middle"

\* RowSkipped that never skips a row.
RowSkippedNever(d, ctx, line, loc, draw_everything) == FALSE

\* Droplet::draw, lines 186-194: a row already on the frame is not written again.
RowSkipped(d, ctx, line, loc, draw_everything) ==
    /\ loc = "Middle"
    /\ line < d.head_cur_line
    /\ ~IsGlitched(ctx, line, d.bound_col)
    /\ line # d.end_line
    /\ ~ctx.shading_distance
    /\ ~draw_everything

\* Droplet::draw, lines 196-224: the glyph of a row and, in full-width mode, the
\* filler to its right.
DrawRow(fr, d, ctx, line, now) ==
    LET val == GetChar(ctx, line, d.char_pool_idx)
    IN  The({ The({ IF ctx.full_width /\ d.bound_col + 1 < fr.width
                    THEN FrameSet(g, d.bound_col + 1, line, BlankCell(ctx.bg))
                    ELSE g
                    : g \in { FrameSet(fr, d.bound_col, line,
                                       [ ch |-> val, fg |-> a.fg, bg |-> ctx.bg,
                                         bold |-> a.bold ]) } })
              : a \in { GetAttr(ctx, line, d.bound_col, CharCode(val),
                                RowLoc(d, line, now), now, d.head_put_line, d.length) } })

\* Droplet::draw, lines 163-169: the rows the tail has left are blanked, from
\* `line` to the tail.
RECURSIVE BlankTail(_, _, _, _)
BlankTail(fr, d, bg, line) ==
    IF line > d.tail_put_line THEN fr
    ELSE The({ BlankTail(g, d, bg, line + 1) :
               g \in { FrameSet(fr, d.bound_col, line, BlankCell(bg)) } })

\* Droplet::draw, lines 174-225: the rows from `line` to the head.
RECURSIVE DrawRows(_, _, _, _, _, _)
DrawRows(fr, d, ctx, now, draw_everything, line) ==
    IF line > d.head_put_line \/ line >= ctx.lines THEN fr
    ELSE The({ DrawRows(g, d, ctx, now, draw_everything, line + 1) :
               g \in { IF RowSkipped(d, ctx, line, RowLoc(d, line, now), draw_everything)
                       THEN fr ELSE DrawRow(fr, d, ctx, line, now) } })

\* Droplet::draw: the frame after the call.
DrawFrame(d, ctx, fr, now, draw_everything) ==
    IF IsSome(d.tail_put_line)
    THEN The({ DrawRows(g, d, ctx, now, draw_everything, SatAdd(d.tail_put_line, 1)) :
               g \in { BlankTail(fr, d, ctx.bg, d.tail_cur_line) } })
    ELSE DrawRows(fr, d, ctx, now, draw_everything, 0)

\* ------------------------------------------------------------------ cloud

VARIABLES
    clock,      \* the last instant Instant::now() returned
    cloud,      \* the scalar fields of Cloud
    droplets,   \* Cloud::droplets, slot 0 .. num_droplets-1
    col_stat,   \* Cloud::col_stat, column 0 .. cols-1
    tick,       \* what the last call of rain did: the slots spawn initialised,
                \* the slots advance was called on, with the whole number of
                \* glyphs of each call, and the slots it returned true for
    free_count, \* per slot, the calls of advance that returned true since the
                \* slot was last initialised
    main_frame, \* main()'s `frame`, the Frame rain draws into
    travel,     \* per slot, since the slot was last initialised: the glyphs the
                \* calls of advance have moved it by (whole), the glyphs the
                \* cast to u16 has cut off (cut), and the instant of the
                \* activation, moved along with last_time by every resume (since)
    pause_snap  \* << >>, or << s >> with s the instant of the last pause and the
                \* timestamps as they were just before it; s.resumed is set in
                \* the state the resume leaves, and a reset discards s

cloudVars == <<clock, cloud, droplets, col_stat, tick, free_count, main_frame, travel,
               pause_snap>>

VARIABLES
    term_last,  \* Terminal::last: << >> for None, << frame >> for Some(frame)
    term_prev,  \* Terminal::last as it was before the last draw
    out,        \* the commands the last draw queued, in order
    screen      \* the terminal emulator: its cells, cursor and pen

termVars == <<term_last, term_prev, out, screen>>

VARIABLES
    attr,       \* one call of get_attr: its arguments and, once made, its result
    life        \* the process: where main() is, the terminal modes in force, and
                \* the resize events read so far

attrVars == <<attr>>
lifeVars == <<life>>

vars == <<clock, cloud, droplets, col_stat, tick, free_count, main_frame, travel,
          pause_snap, term_last, term_prev, out, screen, attr, life>>

\* The record of a handler that is not a pass of rain; `skipped` marks a call of
\* rain that returned at once.
NoTick == [ rained |-> FALSE, skipped |-> FALSE, draw_everything |-> FALSE,
            spawned |-> {}, advanced |-> {}, free |-> {}, whole |-> << >>,
            cut |-> << >>, time_for_glitch |-> FALSE, rain_cells |-> << >>,
            full_cells |-> << >>, rain_written |-> {} ]

\* The travel of a slot that has just been initialised at instant `now`.
NoTravel(now) == [ whole |-> 0, cut |-> 0, since |-> now ]

Slots == DOMAIN droplets
Columns == DOMAIN col_stat

\* ColumnStatus as Cloud::reset builds it
NewColumnStatus == [ max_speed_pct |-> Milli, num_droplets |-> 0, can_spawn |-> TRUE ]

\* Cloud::recalc_droplets_per_sec: cols * density / (lines / cps), as a fraction
\* of droplets per second; density is in hundredths.
RecalcDropletsPerSec(c) ==
    [ c EXCEPT !.droplets_per_sec =
        [ num |-> c.cols * c.droplet_density * Max(c.chars_per_sec, 0),
          den |-> c.lines * 100 ] ]

\* RandLine that reaches the last line of the viewport.
RandLineToBottom(c) == 0 .. SatSub(c.lines, 1)

\* The distributions Cloud::reset rebuilds from the viewport.
RandLine(c) == 0 .. SatSub(c.lines, 2)
RandLen(c) == 1 .. SatSub(c.lines, 2)
RandCol(c) == 0 .. SatSub(c.cols, 1)
RandLingerMs(c) == c.linger_low_ms .. c.linger_high_ms
\* rand_cpidx is 0 ..= 2047 over a pool of 2048 glyphs: every index of the pool.
RandCpIdx(c) == 0 .. Max(Len(c.char_pool), 1) - 1
RandGlitchMs(c) == c.glitch_low_ms .. c.glitch_high_ms

\* Cloud::spawn_droplets, lines 610-612:
\* ((elapsed_sec * droplets_per_sec) as usize).min(num_droplets); a division by
\* zero lines gives an infinite rate (or NaN, which casts to 0).
ToSpawn(c, now) ==
    LET elapsed == DurationSince(now, c.last_spawn_time)
        dps == c.droplets_per_sec
    IN  IF dps.den = 0
        THEN IF dps.num > 0 /\ elapsed > 0 THEN c.num_droplets ELSE 0
        ELSE Min((elapsed * dps.num) \div (dps.den * Milli), c.num_droplets)

\* Cloud::fill_droplet, lines 572-587: the end_line, length, linger and pool
\* index the random draws can give.
FillOutcomes(c) ==
    { [ end_line |-> IF r[1] <= c.die_early_pct THEN r[2] ELSE SatSub(c.lines, 1),
        length   |-> IF r[3] <= c.short_pct THEN r[4] ELSE c.lines,
        linger   |-> r[5],
        cp_idx   |-> r[6] ] :
      r \in ChanceSamples \X RandLine(c) \X ChanceSamples \X RandLen(c) \X RandLingerMs(c)
            \X RandCpIdx(c) }

\* FillDroplet that takes the drawn linger for every droplet.
FillDropletLingersAlways(c, cs, d, col, f) ==
    [ d EXCEPT !.bound_col = col,
               !.end_line = f.end_line,
               !.char_pool_idx = f.cp_idx,
               !.length = f.length,
               !.chars_per_sec =
                   ((IF col \in DOMAIN cs THEN cs[col].max_speed_pct ELSE Milli)
                    * c.chars_per_sec) \div Milli,
               !.time_to_linger = f.linger,
               !.head_put_line = 0, !.head_cur_line = 0,
               !.tail_put_line = None, !.tail_cur_line = 0,
               !.head_stop_time = None ]

\* Cloud::fill_droplet, lines 583-606
FillDroplet(c, cs, d, col, f) ==
    [ d EXCEPT !.bound_col = col,
               !.end_line = f.end_line,
               !.char_pool_idx = f.cp_idx,
               !.length = f.length,
               !.chars_per_sec =
                   ((IF col \in DOMAIN cs THEN cs[col].max_speed_pct ELSE Milli)
                    * c.chars_per_sec) \div Milli,
               !.time_to_linger = IF f.end_line <= f.length THEN f.linger ELSE 1,
               !.head_put_line = 0, !.head_cur_line = 0,
               !.tail_put_line = None, !.tail_cur_line = 0,
               !.head_stop_time = None ]

\* FindDormant that takes the slot under the cursor, alive or not.
FindDormantAtCursor(ds, idx) == idx

\* Cloud::spawn_droplets, lines 636-643: the first dormant slot at or after idx,
\* or the pool size when there is none.
RECURSIVE FindDormant(_, _)
FindDormant(ds, idx) ==
    IF idx \notin DOMAIN ds THEN idx
    ELSE IF ~ds[idx].is_alive THEN idx
    ELSE FindDormant(ds, idx + 1)

\* SpawnRefused with the cap reached one droplet early.
SpawnRefusedBelowCap(c, cs, col) ==
    ~cs[col].can_spawn \/ cs[col].num_droplets + 1 >= c.max_droplets_per_column

\* SpawnRefused without the per-column cap.
SpawnRefusedNoCap(c, cs, col) == ~cs[col].can_spawn

\* Cloud::spawn_droplets, lines 630-632: the column refuses a spawn.
SpawnRefused(c, cs, col) ==
    ~cs[col].can_spawn \/ cs[col].num_droplets >= c.max_droplets_per_column

\* MarkSpawned that leaves the column spawn-allowed.
MarkSpawnedKeepsFlag(cs, col) == [ cs EXCEPT ![col].num_droplets = @ + 1 ]

\* Cloud::spawn_droplets, lines 653-654
MarkSpawned(cs, col) ==
    [ cs EXCEPT ![col].can_spawn = FALSE, ![col].num_droplets = @ + 1 ]

\* SpawnCol that takes the column as drawn.
SpawnColAsDrawn(c, rc) == rc

\* Cloud::spawn_droplets, lines 622-625: in full-width mode the drawn column
\* is made even (col &= 0xFFFE).
SpawnCol(c, rc) == IF c.full_width THEN 2 * (rc \div 2) ELSE rc

\* Cloud::spawn_droplets, lines 621-656: one iteration of the loop, for every
\* outcome of its random draws.  A state of the loop is the pool, the column
\* status, the scan cursor idx, the slots initialised so far and whether the
\* loop has left through `break`.
SpawnAttempt(c, now, st) ==
    UNION { IF col \notin DOMAIN st.col_stat THEN { st }
            ELSE IF SpawnRefused(c, st.col_stat, col) THEN { st }
            ELSE LET di == FindDormant(st.droplets, st.idx)
                 IN  IF di \notin DOMAIN st.droplets
                     THEN { [ st EXCEPT !.idx = di, !.brk = TRUE ] }
                     ELSE { [ droplets |-> [ st.droplets EXCEPT ![di] =
                                  Activate(FillDroplet(c, st.col_stat, @, col, f), now) ],
                              col_stat |-> MarkSpawned(st.col_stat, col),
                              idx |-> di,
                              spawned |-> st.spawned \cup { di },
                              brk |-> FALSE ] : f \in FillOutcomes(c) }
          : col \in { SpawnCol(c, rc) : rc \in RandCol(c) } }

RECURSIVE SpawnLoop(_, _, _, _)
SpawnLoop(c, now, st, k) ==
    IF k = 0 \/ st.brk THEN { st }
    ELSE UNION { SpawnLoop(c, now, s, k - 1) : s \in SpawnAttempt(c, now, st) }

\* Cloud::spawn_droplets: every state the call can leave the pool and the
\* column status in.
SpawnDroplets(c, ds, cs, now) ==
    SpawnLoop(c, now,
              [ droplets |-> ds, col_stat |-> cs, idx |-> 0, spawned |-> {}, brk |-> FALSE ],
              ToSpawn(c, now))

\* Cloud::set_column_spawn
SetColumnSpawn(cs, col, b) ==
    IF col \in DOMAIN cs THEN [ cs EXCEPT ![col].can_spawn = b ] ELSE cs

\* Cloud::rain, lines 835-857: the update pass from slot i on.
RECURSIVE UpdatePass(_, _, _, _, _)
UpdatePass(i, ds, cs, now, lines) ==
    IF i \notin DOMAIN ds
    THEN [ droplets |-> ds, col_stat |-> cs, free |-> {}, whole |-> << >>, cut |-> << >> ]
    ELSE IF ~ds[i].is_alive THEN UpdatePass(i + 1, ds, cs, now, lines)
    ELSE LET a == Advance(ds[i], now, lines)
             rest == UpdatePass(i + 1, [ ds EXCEPT ![i] = a.d ],
                                IF a.free THEN SetColumnSpawn(cs, a.d.bound_col, TRUE) ELSE cs,
                                now, lines)
         IN  [ rest EXCEPT !.free = IF a.free THEN @ \cup { i } ELSE @,
                           !.whole = (i :> a.whole) @@ @,
                           !.cut = (i :> a.cut) @@ @ ]

\* Cloud::rain, lines 883-890: a droplet found not alive after its draw gives
\* its column slot back.
ReleaseColumn(cs, d, lines) ==
    IF d.bound_col \notin DOMAIN cs THEN cs
    ELSE [ cs EXCEPT ![d.bound_col].num_droplets = SatSub(@, 1),
                     ![d.bound_col].can_spawn =
                         IF (IF IsSome(d.tail_put_line) THEN d.tail_put_line ELSE 0)
                            <= lines \div 4
                         THEN TRUE ELSE @ ]

\* Cloud::rain, lines 877-891: the draw pass from slot i on.
RECURSIVE DrawPass(_, _, _, _)
DrawPass(i, ds, cs, lines) ==
    IF i \notin DOMAIN ds THEN [ droplets |-> ds, col_stat |-> cs ]
    ELSE IF ~ds[i].is_alive THEN DrawPass(i + 1, ds, cs, lines)
    ELSE LET d == Draw(ds[i])
         IN  DrawPass(i + 1, [ ds EXCEPT ![i] = d ],
                      IF ~d.is_alive THEN ReleaseColumn(cs, d, lines) ELSE cs,
                      lines)

\* Cloud::rain, lines 825-904, at instant `now`, for one outcome `sp` of
\* spawn_droplets: the pool, the column status and the record of the tick.
RainResult(c, sp, now) ==
    LET up == UpdatePass(0, sp.droplets, sp.col_stat, now, c.lines)
        dr == DrawPass(0, up.droplets, up.col_stat, c.lines)
    IN  [ droplets |-> dr.droplets,
          col_stat |-> dr.col_stat,
          tick |-> [ rained |-> TRUE, skipped |-> FALSE,
                     draw_everything |-> c.force_draw_everything,
                     time_for_glitch |-> FALSE, rain_cells |-> << >>,
                     full_cells |-> << >>, rain_written |-> {},
                     spawned |-> sp.spawned,
                     advanced |-> { i \in DOMAIN sp.droplets : sp.droplets[i].is_alive },
                     free |-> up.free, whole |-> up.whole, cut |-> up.cut ] ]

\* TimeForGlitch that waits for the instant after next_glitch_time.
TimeForGlitchLate(c, now) == c.glitchy /\ now > c.next_glitch_time

\* Cloud::time_for_glitch, lines 506-508
TimeForGlitch(c, now) == c.glitchy /\ now >= c.next_glitch_time

\* GlitchSpan that writes every glyph at the droplet's pool offset.
RECURSIVE GlitchSpanAtOffset(_, _, _, _, _)
GlitchSpanAtOffset(c, line, hp, col, cp_idx) ==
    IF ~c.glitchy \/ line > hp \/ line >= c.lines THEN c
    ELSE IF IsGlitched(c, line, col)
    THEN The({ GlitchSpanAtOffset(g, line + 1, hp, col, cp_idx) :
               g \in { [ c EXCEPT
                           !.char_pool[(cp_idx % Len(c.char_pool)) + 1] =
                               c.glitch_pool[(c.glitch_pool_idx % Len(c.glitch_pool)) + 1],
                           !.glitch_pool_idx = (@ + 1) % Len(c.glitch_pool) ] } })
    ELSE GlitchSpanAtOffset(c, line + 1, hp, col, cp_idx)

\* Cloud::do_glitch_span, lines 558-568, from `line` on, for a pool that
\* init_chars has filled: each glitched row takes the next glyph of the glitch
\* pool.
RECURSIVE GlitchSpan(_, _, _, _, _)
GlitchSpan(c, line, hp, col, cp_idx) ==
    IF ~c.glitchy \/ line > hp \/ line >= c.lines THEN c
    ELSE IF IsGlitched(c, line, col)
    THEN The({ GlitchSpan(g, line + 1, hp, col, cp_idx) :
               g \in { [ c EXCEPT
                           !.char_pool[((cp_idx + line) % Len(c.char_pool)) + 1] =
                               c.glitch_pool[(c.glitch_pool_idx % Len(c.glitch_pool)) + 1],
                           !.glitch_pool_idx = (@ + 1) % Len(c.glitch_pool) ] } })
    ELSE GlitchSpan(c, line + 1, hp, col, cp_idx)

\* Cloud::rain, lines 843-856: the glitch spans of the update pass from slot i
\* on; ds is the pool after the pass, adv the slots it advanced.
RECURSIVE GlitchPass(_, _, _, _)
GlitchPass(i, ds, adv, c) ==
    IF i \notin DOMAIN ds THEN c
    ELSE IF i \notin adv THEN GlitchPass(i + 1, ds, adv, c)
    ELSE The({ GlitchPass(i + 1, ds, adv, g) :
               g \in { GlitchSpan(c, IF IsSome(ds[i].tail_put_line)
                                     THEN ds[i].tail_put_line + 1 ELSE 0,
                                  ds[i].head_put_line, ds[i].bound_col,
                                  ds[i].char_pool_idx) } })

\* Cloud::rain, lines 877-881: the frame writes of the draw pass from slot i on;
\* ds is the pool after the update pass.
RECURSIVE FramePass(_, _, _, _, _, _)
FramePass(i, ds, c, fr, now, draw_everything) ==
    IF i \notin DOMAIN ds THEN fr
    ELSE The({ FramePass(i + 1, ds, c, g, now, draw_everything) :
               g \in { IF ds[i].is_alive
                       THEN DrawFrame(ds[i], c, fr, now, draw_everything)
                       ELSE fr } })

\* Cloud::reset_message, lines 745-749: the block the message is laid out in.
MsgFirstCol(c) == c.cols \div 4
MsgLastCol(c) == (3 * c.cols) \div 4
MsgCharsPerCol(c) == SatSub(MsgLastCol(c), MsgFirstCol(c)) + 1
MsgLines(c) == SatAdd(Len(c.message) \div MsgCharsPerCol(c), 1)

\* Cloud::reset_message, line 749: lines / 2 - msg_lines / 2 in u16 goes below
\* zero; the subtraction panics with overflow checks and wraps without.
MsgUnderflows(c) == c.message # << >> /\ c.lines \div 2 < MsgLines(c) \div 2
MsgFirstLine(c) == (c.lines \div 2 - MsgLines(c) \div 2) % (U16Max + 1)

\* Cloud::reset_message, lines 754-756 and 771-773: the last row is centred.
MsgIndent(c, remaining) ==
    IF remaining < MsgCharsPerCol(c) THEN (MsgCharsPerCol(c) - remaining) \div 2 ELSE 0

\* Cloud::reset_message, lines 758-778: the characters from the k-th on.
RECURSIVE LayMessage(_, _, _, _, _)
LayMessage(c, k, line, col, remaining) ==
    IF k > Len(c.message) THEN << >>
    ELSE << [ val |-> c.message[k].val, draw |-> FALSE,
              line |-> IF line < c.lines THEN line ELSE U16Max,
              col |-> IF line < c.lines THEN col ELSE U16Max ] >>
         \o (IF col = MsgLastCol(c)
             THEN LayMessage(c, k + 1, SatAdd(line, 1),
                             MsgFirstCol(c) + MsgIndent(c, remaining),
                             SatSub(remaining, 1))
             ELSE LayMessage(c, k + 1, line, SatAdd(col, 1), SatSub(remaining, 1)))

\* Cloud::reset_message, with the wrapped first line when the subtraction
\* underflows.
ResetMessage(c) ==
    IF c.message = << >> THEN c
    ELSE [ c EXCEPT !.message =
             LayMessage(c, 1, MsgFirstLine(c),
                        MsgFirstCol(c) + MsgIndent(c, Len(c.message)), Len(c.message)) ]

\* Cloud::set_message
SetMessage(c, msg) ==
    ResetMessage([ c EXCEPT !.message =
        [ k \in 1 .. Len(msg) |-> [ val |-> msg[k], draw |-> FALSE, line |-> 0, col |-> 0 ] ] ])

\* CalcMessage that shows every character at once.
RECURSIVE CalcMessageAtOnce(_, _, _)
CalcMessageAtOnce(msg, fr, k) ==
    IF k > Len(msg) THEN msg
    ELSE The({ CalcMessageAtOnce(m, fr, k + 1) : m \in { [ msg EXCEPT ![k].draw = TRUE ] } })

\* Cloud::calc_message, from the k-th character on: a character becomes visible
\* when the frame holds something other than a space at its position.
RECURSIVE CalcMessage(_, _, _)
CalcMessage(msg, fr, k) ==
    IF k > Len(msg) THEN msg
    ELSE IF msg[k].line = U16Max \/ msg[k].col = U16Max THEN msg
    ELSE The({ CalcMessage(m, fr, k + 1) :
               m \in { IF \E g \in { FrameGet(fr, msg[k].col, msg[k].line) } :
                              g # << >> /\ g[1].ch # " "
                       THEN [ msg EXCEPT ![k].draw = TRUE ] ELSE msg } })

\* MessageFg that colors the message in every color mode.
MessageFgAlways(c) == GetOr(c.palette_colors, Len(c.palette_colors) - 1, NoColor)

\* Cloud::draw_message, lines 808-812: the foreground of a message character.
MessageFg(c) ==
    IF c.color_mode = "Mono" THEN NoColor
    ELSE GetOr(c.palette_colors, Len(c.palette_colors) - 1, NoColor)

\* Cloud::draw_message, from the k-th character on.
RECURSIVE DrawMessage(_, _, _, _)
DrawMessage(c, msg, fr, k) ==
    IF k > Len(msg) THEN fr
    ELSE IF ~msg[k].draw \/ msg[k].line = U16Max \/ msg[k].col = U16Max
    THEN DrawMessage(c, msg, fr, k + 1)
    ELSE The({ DrawMessage(c, msg, g, k + 1) :
               g \in { FrameSet(fr, msg[k].col, msg[k].line,
                                [ ch |-> msg[k].val, fg |-> MessageFg(c), bg |-> c.bg,
                                  bold |-> c.bold_mode # "Off" ]) } })

\* Cloud::rain, lines 828-904, at instant `now`, for one outcome `sp` of
\* spawn_droplets and one draw `ms` of rand_glitch_ms: the fields of the cloud
\* and the frame; rain_cells are the cells the draw pass leaves, before the
\* message is laid over them, and rain_written the writes of the draw pass;
\* full_cells are the cells of the frame had every
\* draw of the pass been called with draw_everything = true.
RainLook(c, fr, sp, now, ms) ==
    LET draw_everything == c.force_draw_everything
        time_for_glitch == TimeForGlitch(c, now)
        adv == { i \in DOMAIN sp.droplets : sp.droplets[i].is_alive }
    IN  The({ The({ The({ The({ The({
            [ cloud |-> [ c1 EXCEPT
                            !.message = msg,
                            !.last_glitch_time = IF time_for_glitch THEN now ELSE @,
                            !.next_glitch_time = IF time_for_glitch THEN now + ms ELSE @,
                            !.last_spawn_time = IF sp.spawned # {} THEN now ELSE @,
                            !.force_draw_everything = FALSE ],
              frame |-> [ f2 EXCEPT !.written = f1.written \cup f2.written ],
              time_for_glitch |-> time_for_glitch,
              rain_cells |-> IF msg = << >> THEN << >> ELSE f1.cells,
              rain_written |-> f1.written,
              full_cells |-> DrawMessage(c1, msg,
                                         FramePass(0, up.droplets, c1, f0, now, TRUE), 1).cells ]
            : f2 \in { DrawMessage(c1, msg, [ f1 EXCEPT !.written = {} ], 1) } })
            : msg \in { CalcMessage(c1.message, f1, 1) } })
            : f1 \in { FramePass(0, up.droplets, c1, f0, now, draw_everything) } })
            : c1 \in { IF time_for_glitch THEN GlitchPass(0, up.droplets, adv, c) ELSE c } })
            : up \in { UpdatePass(0, sp.droplets, sp.col_stat, now, c.lines) },
              f0 \in { [ (IF draw_everything THEN FrameClear(fr) ELSE fr)
                          EXCEPT !.written = {} ] } })

\* FillMaps that adds the new entries to the maps it finds.
FillMapsAppending(c, r) ==
    [ c EXCEPT
        !.glitch_map = IF ~c.glitchy THEN << >>
                       ELSE @ \o [ i \in 1 .. c.lines * c.cols |->
                                     IF i % 2 = 1 THEN r.g1 ELSE r.g2 ],
        !.color_map = @ \o [ i \in 1 .. c.lines * c.cols |->
                               IF i % 2 = 1 THEN r.k1 ELSE r.k2 ] ]

\* Cloud::fill_glitch_map and Cloud::fill_color_map for two draws each: the
\* entries of even index take the first draw, those of odd index the second.
FillMaps(c, r) ==
    [ c EXCEPT
        !.glitch_map = IF ~c.glitchy THEN << >>
                       ELSE [ i \in 1 .. c.lines * c.cols |->
                                IF i % 2 = 1 THEN r.g1 ELSE r.g2 ],
        !.color_map = [ i \in 1 .. c.lines * c.cols |-> IF i % 2 = 1 THEN r.k1 ELSE r.k2 ] ]

\* The random draws of one Cloud::reset.
ResetDraws(c) ==
    [ g1 : IF c.glitchy THEN { x <= c.glitch_pct : x \in ChanceSamples } ELSE { FALSE },
      g2 : IF c.glitchy THEN { x <= c.glitch_pct : x \in ChanceSamples } ELSE { FALSE },
      k1 : ColorMapRange(Max(Len(c.palette_colors), 1)),
      k2 : ColorMapRange(Max(Len(c.palette_colors), 1)),
      ms : RandGlitchMs(c) ]

\* Cloud::reset, line 395: Uniform::new_inclusive(1, lines.saturating_sub(2))
\* panics when the range is empty.
RandLenPanics(lines) == 1 > SatSub(lines, 2)

\* ResetCloud that leaves last_spawn_time as it was.
ResetCloudKeepsSpawnTime(c, cols, lines, now) ==
    RecalcDropletsPerSec(
        [ c EXCEPT !.cols = cols, !.lines = lines,
                   !.num_droplets = PoolSize(cols),
                   !.force_draw_everything = TRUE ])

\* Cloud::reset(cols, lines) at instant `now`: the scalar fields.
ResetCloud(c, cols, lines, now) ==
    RecalcDropletsPerSec(
        [ c EXCEPT !.cols = cols, !.lines = lines,
                   !.num_droplets = PoolSize(cols),
                   !.last_spawn_time = now,
                   !.force_draw_everything = TRUE ])

\* Samples of rand_speed (Uniform [0.3333333, 1.0]), in thousandths.
SpeedSamples == { 500, 1000 }

\* Cloud::set_column_speeds: every column gets a sample of rand_speed in async
\* mode and 1.0 otherwise; every filling the call can leave behind.
SetColumnSpeeds(c, cs) ==
    { [ col \in DOMAIN cs |-> [ cs[col] EXCEPT !.max_speed_pct = pct[col] ] ] :
      pct \in [ DOMAIN cs -> IF c.async_mode THEN SpeedSamples ELSE { Milli } ] }

\* UpdateDropletSpeeds that leaves the droplets at the speed they have.
UpdateDropletSpeedsStale(c, cs, ds) == ds

\* Cloud::update_droplet_speeds: the alive droplets take the speed of their
\* column.
UpdateDropletSpeeds(c, cs, ds) ==
    [ i \in DOMAIN ds |->
        IF ds[i].is_alive /\ ds[i].bound_col \in DOMAIN cs
        THEN [ ds[i] EXCEPT !.chars_per_sec =
                              (cs[ds[i].bound_col].max_speed_pct * c.chars_per_sec) \div Milli ]
        ELSE ds[i] ]

\* ResetColStat with one entry too many.
ResetColStatWide(cols) == [ col \in 0 .. cols |-> NewColumnStatus ]

\* Cloud::reset: the pool and the column status.
ResetDroplets(cols) == [ i \in 0 .. PoolSize(cols) - 1 |-> NewDroplet ]
ResetColStat(cols) == [ col \in 0 .. cols - 1 |-> NewColumnStatus ]

\* Cloud::new followed by the setters main() calls before the first reset.
NewCloud(cps, density, maxdpc, linger) ==
    [ lines |-> 25, cols |-> 80,
      chars_per_sec |-> cps, droplet_density |-> density,
      droplets_per_sec |-> [ num |-> 5, den |-> 1 ],
      max_droplets_per_column |-> maxdpc,
      short_pct |-> 500, die_early_pct |-> 333,
      linger_low_ms |-> linger[1], linger_high_ms |-> linger[2],
      num_droplets |-> 0,
      async_mode |-> FALSE,
      pause |-> FALSE, pause_time |-> None,
      last_spawn_time |-> 0,
      force_draw_everything |-> FALSE,
      palette_colors |-> PaletteOf(3), bg |-> "black", color_mode |-> "Color",
      full_width |-> FALSE, shading_distance |-> FALSE, bold_mode |-> "Off",
      glitchy |-> TRUE, glitch_pct |-> 100, glitch_low_ms |-> 300, glitch_high_ms |-> 400,
      char_pool |-> << >>, glitch_pool |-> << >>, glitch_pool_idx |-> 0,
      glitch_map |-> << >>, color_map |-> << >>,
      last_glitch_time |-> 0, next_glitch_time |-> 300,
      message |-> << >>,
      fault |-> "none" ]

\* The arguments of Cloud::new that decide the look, the glitch setters main()
\* calls (lines 185-187), short_pct and die_early_pct (lines 188-189) and
\* Cloud::init_chars for one filling of the pools.
WithLook(c, look) ==
    [ c EXCEPT !.short_pct = look.short_pct, !.die_early_pct = look.die_early_pct,
               !.palette_colors = look.palette_colors, !.bg = look.bg,
               !.color_mode = look.color_mode, !.full_width = look.full_width,
               !.shading_distance = look.shading_distance, !.bold_mode = look.bold_mode,
               !.glitchy = look.glitchy, !.glitch_pct = look.glitch_pct,
               !.glitch_low_ms = look.glitch_ms[1], !.glitch_high_ms = look.glitch_ms[2],
               !.char_pool = look.char_pool, !.glitch_pool = look.glitch_pool,
               !.glitch_pool_idx = 0 ]

\* Cloud::reset(cols, lines) at instant `now`, on a cloud whose column status
\* is cs: every state the call can leave behind.  A panic leaves the fields
\* assigned before it and marks the cloud faulted.
ResetOutcomes(c, cs, cols, lines, now) ==
    IF RandLenPanics(lines)
    THEN { [ cloud |-> [ c EXCEPT !.cols = cols, !.lines = lines,
                                  !.num_droplets = PoolSize(cols), !.fault = "range" ],
             droplets |-> ResetDroplets(cols),
             col_stat |-> cs ] }
    ELSE UNION {
           LET filled == The({ m : m \in { FillMaps(ResetCloud(c, cols, lines, now), r) } })
           IN  { [ cloud |-> [ ResetMessage(filled) EXCEPT
                                 !.last_glitch_time = now,
                                 !.next_glitch_time = now + r.ms ],
                   droplets |-> ResetDroplets(cols),
                   col_stat |-> s ] : s \in SetColumnSpeeds(filled, ResetColStat(cols)) }
               \cup
               (IF MsgUnderflows(filled)
                THEN { [ cloud |-> [ filled EXCEPT
                                       !.last_spawn_time = c.last_spawn_time,
                                       !.force_draw_everything = c.force_draw_everything,
                                       !.fault = "underflow" ],
                         droplets |-> ResetDroplets(cols),
                         col_stat |-> s ] : s \in SetColumnSpeeds(filled, ResetColStat(cols)) }
                ELSE {})
           : r \in ResetDraws(c) }

\* The look of the rain when nothing is asked for but colors: no glitches, no
\* message, no bold; --shortpct and --rippct are left at their defaults.
PlainLook ==
    [ short_pct |-> 500, die_early_pct |-> 333,
      palette_colors |-> PaletteOf(3), bg |-> "black", color_mode |-> "Color",
      full_width |-> FALSE, shading_distance |-> FALSE, bold_mode |-> "Off",
      glitchy |-> FALSE, glitch_pct |-> 100, glitch_ms |-> <<3, 3>>,
      char_pool |-> << "0" >>, glitch_pool |-> << "1" >>,
      message |-> << >> ]

\* main(), lines 172-229: Cloud::new, the setters, init_chars, cloud.reset(w, h)
\* at instant 0, then set_message when a message is given.
Started(cf, look) ==
    { [ o EXCEPT !.cloud = IF look.message = << >> THEN @
                           ELSE SetMessage(@, look.message) ] :
      o \in ResetOutcomes(WithLook(NewCloud(cf.speed, cf.density, cf.maxdpc, cf.linger), look),
                          << >>, cf.cols, cf.lines, 0) }

\* Instant::now(): time never runs backwards.
Instants == clock .. Min(clock + MaxDt, MaxTime)

\* main() up to the loop, for a configuration of cfs and a look of looks: the
\* frame is Frame::new(w, h, cloud.palette.bg).
CloudInitWith(cfs, looks) ==
    /\ clock = 0
    /\ \E cf \in cfs : \E look \in looks : \E o \in Started(cf, look) :
          /\ cloud = o.cloud
          /\ droplets = o.droplets
          /\ col_stat = o.col_stat
          /\ free_count = [ i \in DOMAIN o.droplets |-> 0 ]
          /\ travel = [ i \in DOMAIN o.droplets |-> NoTravel(0) ]
          /\ main_frame = FrameNew(cf.cols, cf.lines, o.cloud.bg)
    /\ tick = NoTick
    /\ pause_snap = << >>

CloudInit == CloudInitWith(Configs, { PlainLook })

\* The viewport of the runs that vary the look: one column, or two columns in
\* full-width mode, of three lines.
LookConfigs ==
    { [ cols |-> 2, lines |-> 3, speed |-> 1000, density |-> 50, maxdpc |-> 1,
        linger |-> <<2, 2>> ] }

\* Looks: monochrome and colored, with every cell glitched or a random part of
\* them over a window of 2 ms, a message, distance shading, bold modes and
\* full-width columns.
Looks ==
    { [ PlainLook EXCEPT !.color_mode = "Mono", !.glitchy = TRUE, !.glitch_pct = 1000,
                         !.glitch_ms = <<2, 2>>, !.bold_mode = "Random",
                         !.message = << "H", "I" >> ],
      [ PlainLook EXCEPT !.color_mode = "Mono", !.full_width = TRUE,
                         !.shading_distance = TRUE, !.bold_mode = "All",
                         !.palette_colors = PaletteOf(1), !.bg = NoColor ],
      [ PlainLook EXCEPT !.glitchy = TRUE, !.glitch_ms = <<2, 2>>,
                         !.glitch_pool = << "1", "0" >> ],
      [ PlainLook EXCEPT !.full_width = TRUE, !.shading_distance = TRUE,
                         !.bold_mode = "Random", !.palette_colors = PaletteOf(2),
                         !.message = << "H", "I" >> ] }

\* The viewport and the looks of the runs with resize events: the message of
\* four characters does not fit one column of three lines.
ViewConfigs ==
    { [ cols |-> 2, lines |-> 3, speed |-> 1000, density |-> 50, maxdpc |-> 1,
        linger |-> <<2, 2>> ] }

ViewLooks ==
    { [ PlainLook EXCEPT !.glitchy = TRUE, !.glitch_pct = 1000 ],
      [ PlainLook EXCEPT !.message = << "H", "I", "H", "I" >> ] }

\* The runs that follow one droplet: one column of three or five lines, in which
\* the first droplet is the only one (its column never spawns again); speeds
\* of 0.4 glyphs and of 1 glyph per ms and the highest speed main() lets
\* through, 1000 glyphs per ms.
DropConfigs ==
    { [ cols |-> 1, lines |-> 3, speed |-> 400, density |-> 400, maxdpc |-> 1,
        linger |-> <<2, 3>> ],
      [ cols |-> 1, lines |-> 5, speed |-> 1000, density |-> 400, maxdpc |-> 1,
        linger |-> <<2, 3>> ],
      [ cols |-> 1, lines |-> 3, speed |-> 1000000, density |-> 1, maxdpc |-> 1,
        linger |-> <<2, 3>> ] }

\* --rippct and --shortpct of 0, of the defaults, and of 100.
DropLooks ==
    { [ PlainLook EXCEPT !.die_early_pct = 0, !.short_pct = 0 ],
      PlainLook,
      [ PlainLook EXCEPT !.die_early_pct = 1000, !.short_pct = 1000 ] }

\* Instant::now() in those runs: up to MaxDt later, or StallMs later.
DropInstants ==
    { t \in (clock .. clock + MaxDt) \cup { clock + StallMs } : t <= DropMaxTime }

\* Instant::now() under a frame loop that never stalls.
LiveInstants == { t \in clock .. clock + MaxDt : t <= LiveMaxTime }

\* The slow and the five-line configuration of DropConfigs.
LiveConfigs == { cf \in DropConfigs : cf.speed <= Milli }

\* A rain that never returns at once.
PausedReturnNever(c) == FALSE

\* Cloud::rain, lines 821-823: the call returns at once.
PausedReturn(c) == c.pause

\* Cloud::rain while not paused, with Instant::now() in `instants`.
RainAt(instants) ==
    /\ cloud.fault = "none"
    /\ ~PausedReturn(cloud)
    /\ \E now \in instants :
         \E sp \in SpawnDroplets(cloud, droplets, col_stat, now) :
         \E ms \in IF TimeForGlitch(cloud, now) THEN RandGlitchMs(cloud) ELSE { 0 } :
         \E r \in { RainResult(cloud, sp, now) } :
         \E look \in { RainLook(cloud, main_frame, sp, now, ms) } :
                /\ clock' = now
                /\ cloud' = look.cloud
                /\ main_frame' = look.frame
                /\ droplets' = r.droplets
                /\ col_stat' = r.col_stat
                /\ tick' = [ r.tick EXCEPT !.time_for_glitch = look.time_for_glitch,
                                           !.rain_cells = look.rain_cells,
                                           !.full_cells = look.full_cells,
                                           !.rain_written = look.rain_written ]
                /\ travel' = [ i \in DOMAIN r.droplets |->
                                 [ (IF i \in sp.spawned THEN NoTravel(now) ELSE travel[i])
                                   EXCEPT !.whole = @ + (IF i \in r.tick.advanced
                                                         THEN r.tick.whole[i] ELSE 0),
                                          !.cut = @ + (IF i \in r.tick.advanced
                                                       THEN r.tick.cut[i] ELSE 0) ] ]
                /\ free_count' = [ i \in DOMAIN r.droplets |->
                                     (IF i \in sp.spawned THEN 0 ELSE free_count[i])
                                     + (IF i \in r.tick.free THEN 1 ELSE 0) ]
                /\ pause_snap' = << >>
    /\ UNCHANGED <<termVars, attrVars, lifeVars>>

Rain == RainAt(Instants)

\* Cloud::rain while paused, lines 821-823: an immediate return.
RainPaused ==
    /\ cloud.fault = "none"
    /\ PausedReturn(cloud)
    /\ tick' = [ NoTick EXCEPT !.skipped = TRUE ]
    /\ UNCHANGED <<clock, cloud, droplets, col_stat, free_count, main_frame, travel,
                   pause_snap>>
    /\ UNCHANGED <<termVars, attrVars, lifeVars>>

\* Cloud::toggle_pause, the 'p' key
TogglePause ==
    \E now \in Instants :
        /\ cloud.fault = "none"
        /\ UNCHANGED <<termVars, attrVars, lifeVars>>
        /\ clock' = now
        /\ tick' = NoTick
        /\ UNCHANGED <<col_stat, free_count, main_frame>>
        /\ IF ~cloud.pause
           THEN /\ cloud' = [ cloud EXCEPT !.pause = TRUE, !.pause_time = now ]
                /\ UNCHANGED <<droplets, travel>>
                /\ pause_snap' = << [ at |-> now, resumed |-> FALSE,
                                      last_spawn_time |-> cloud.last_spawn_time,
                                      droplets |-> droplets ] >>
           ELSE IF IsSome(cloud.pause_time)
           THEN LET elapsed == DurationSince(now, cloud.pause_time)
                IN  /\ cloud' = [ cloud EXCEPT !.pause = FALSE, !.pause_time = None,
                                               !.last_spawn_time = @ + elapsed ]
                    /\ droplets' = [ i \in DOMAIN droplets |->
                                       IF droplets[i].is_alive
                                       THEN IncrementTime(droplets[i], elapsed)
                                       ELSE droplets[i] ]
                    /\ travel' = [ i \in DOMAIN droplets |->
                                     IF droplets[i].is_alive
                                     THEN [ travel[i] EXCEPT !.since = @ + elapsed ]
                                     ELSE travel[i] ]
                    /\ pause_snap' = IF pause_snap = << >> THEN << >>
                                     ELSE << [ pause_snap[1] EXCEPT !.resumed = TRUE ] >>
           ELSE /\ cloud' = [ cloud EXCEPT !.pause = FALSE ]
                /\ UNCHANGED <<droplets, travel>>
                /\ pause_snap' = << >>

\* main(), the space key: cloud.reset(frame.width, frame.height), then
\* cloud.force_draw_everything().
ResetKey ==
    \E now \in Instants :
    \E o \in ResetOutcomes(cloud, col_stat, main_frame.width, main_frame.height, now) :
        /\ cloud.fault = "none"
        /\ UNCHANGED <<termVars, attrVars, lifeVars>>
        /\ clock' = now
        /\ cloud' = o.cloud
        /\ droplets' = o.droplets
        /\ col_stat' = o.col_stat
        /\ tick' = NoTick
        /\ free_count' = [ i \in DOMAIN o.droplets |-> 0 ]
        /\ travel' = [ i \in DOMAIN o.droplets |-> NoTravel(now) ]
        /\ UNCHANGED main_frame
        /\ pause_snap' = << >>

\* Cloud::set_async(on) and Cloud::set_chars_per_sec(cps): the column speeds
\* are drawn again and the alive droplets follow them.
SetAsync(c, cs, ds, on) ==
    LET c1 == [ c EXCEPT !.async_mode = on ]
    IN  { [ cloud |-> c1, col_stat |-> s, droplets |-> UpdateDropletSpeeds(c1, s, ds) ] :
          s \in SetColumnSpeeds(c1, cs) }
SetCharsPerSec(c, cs, ds, cps) ==
    LET c1 == RecalcDropletsPerSec([ c EXCEPT !.chars_per_sec = cps ])
    IN  { [ cloud |-> c1, col_stat |-> s, droplets |-> UpdateDropletSpeeds(c1, s, ds) ] :
          s \in SetColumnSpeeds(c1, cs) }

\* main(), the Up and Down keys: the speed the key asks for, in glyphs per
\* second.  Down from 1.0 halves the speed.
SpeedUp(cps) == Min(cps + 1, 1000)
SpeedDown(cps) == IF cps <= 1 THEN cps \div 2 ELSE Max(cps - 1, 0)

\* A key handler that touches the cloud, its columns and its droplets only.
KeySets(o) ==
    /\ cloud.fault = "none"
    /\ cloud' = o.cloud
    /\ col_stat' = o.col_stat
    /\ droplets' = o.droplets
    /\ tick' = NoTick
    /\ pause_snap' = << >>
    /\ UNCHANGED <<clock, free_count, main_frame, travel>>
    /\ UNCHANGED <<termVars, attrVars, lifeVars>>

\* main(), the 'a' key: cloud.set_async(!cloud.async_mode)
AsyncKey ==
    \E o \in SetAsync(cloud, col_stat, droplets, ~cloud.async_mode) : KeySets(o)

\* main(), the Up key: cloud.set_chars_per_sec(cps.min(1000.0))
UpKey ==
    \E o \in SetCharsPerSec(cloud, col_stat, droplets, SpeedUp(cloud.chars_per_sec)) :
        KeySets(o)

\* main(), the Down key: cloud.set_chars_per_sec(cps.max(0.001)), for the
\* speeds that stay whole numbers of glyphs per second.
DownKey ==
    /\ SpeedDown(cloud.chars_per_sec) >= MinSpeed
    /\ \E o \in SetCharsPerSec(cloud, col_stat, droplets, SpeedDown(cloud.chars_per_sec)) :
          KeySets(o)

\* The sizes a resize event can carry: an empty terminal, heights below three
\* lines, and viewports the rain can run in.
ViewDims == { <<0, 0>>, <<2, 1>>, <<1, 2>>, <<0, 3>>, <<1, 3>> }

\* main(), Event::Resize(nw, nh): cloud.reset(nw, nh), frame =
\* Frame::new(nw, nh, cloud.palette.bg), cloud.force_draw_everything().  A
\* reset that panics ends the handler before the frame is replaced.
Resize ==
    \E now \in Instants : \E wh \in ViewDims :
    \E o \in ResetOutcomes(cloud, col_stat, wh[1], wh[2], now) :
        /\ cloud.fault = "none"
        /\ life.resizes < MaxResizes
        /\ life' = [ life EXCEPT !.resizes = @ + 1 ]
        /\ UNCHANGED <<termVars, attrVars>>
        /\ clock' = now
        /\ cloud' = IF o.cloud.fault = "none"
                     THEN [ o.cloud EXCEPT !.force_draw_everything = TRUE ]
                     ELSE o.cloud
        /\ droplets' = o.droplets
        /\ col_stat' = o.col_stat
        /\ tick' = NoTick
        /\ free_count' = [ i \in DOMAIN o.droplets |-> 0 ]
        /\ travel' = [ i \in DOMAIN o.droplets |-> NoTravel(now) ]
        /\ main_frame' = IF o.cloud.fault = "none"
                          THEN FrameNew(wh[1], wh[2], o.cloud.bg)
                          ELSE main_frame
        /\ pause_snap' = << >>

\* --------------------------------------------------------------- terminal

\* Frame dimensions (width, height) handed to Terminal::draw.
FrameDims == { <<1, 1>>, <<2, 1>>, <<1, 2>> }

\* The cells frames are filled with.
CellChoices ==
    { BlankCell(NoColor), BlankCell("black"),
      [ ch |-> "a", fg |-> "green", bg |-> NoColor, bold |-> TRUE ],
      [ ch |-> "a", fg |-> "green", bg |-> "black", bold |-> FALSE ],
      [ ch |-> "b", fg |-> NoColor, bg |-> "black", bold |-> TRUE ] }

\* Frame: width, height and the row-major cells; cells[i + 1] is the code's cells[i].
Frames ==
    UNION { { [ width |-> wh[1], height |-> wh[2], cells |-> cs ] :
              cs \in [ 1 .. wh[1] * wh[2] -> CellChoices ] } : wh \in FrameDims }

\* The positions of the emulator's grid: every position some frame covers.
Positions == UNION { (0 .. wh[1] - 1) \X (0 .. wh[2] - 1) : wh \in FrameDims }

DefaultPen == [ fg |-> NoColor, bg |-> NoColor, bold |-> FALSE ]

\* Terminal::draw, lines 49-53
NeedsFullRedraw(last, frame) ==
    IF last = << >> THEN TRUE
    ELSE last[1].width # frame.width \/ last[1].height # frame.height

\* Changed that takes every cell for changed.
ChangedAlways(last, frame, idx) == TRUE

\* Terminal::draw, lines 64-72: the cell at index idx must be written.
Changed(last, frame, idx) ==
    IF NeedsFullRedraw(last, frame) THEN TRUE
    ELSE IF idx + 1 \in DOMAIN last[1].cells
         THEN last[1].cells[idx + 1] # frame.cells[idx + 1]
    ELSE TRUE

\* Terminal::draw, lines 78-109: the commands for one written cell, given the
\* attributes the writer tracks (cur_fg, cur_bg, cur_bold).
\* A color command carrying NoColor is the code's Color::Reset.
CellCommands(x, y, cell, cur) ==
    << <<"MoveTo", x, y>> >>
    \o (IF cell.fg # cur.fg THEN << <<"SetForegroundColor", cell.fg>> >> ELSE << >>)
    \o (IF cell.bg # cur.bg THEN << <<"SetBackgroundColor", cell.bg>> >> ELSE << >>)
    \o (IF cell.bold # cur.bold
        THEN << <<"SetAttribute", IF cell.bold THEN "Bold" ELSE "NormalIntensity">> >>
        ELSE << >>)
    \o << <<"Print", cell.ch>> >>

\* Terminal::draw, lines 60-111: the loop over y and x, from index idx on.
RECURSIVE DrawCells(_, _, _, _)
DrawCells(last, frame, idx, cur) ==
    IF idx >= frame.width * frame.height THEN << >>
    ELSE LET cell == frame.cells[idx + 1]
             x == idx % frame.width
             y == idx \div frame.width
         IN  IF ~Changed(last, frame, idx)
             THEN DrawCells(last, frame, idx + 1, cur)
             ELSE CellCommands(x, y, cell, cur)
                  \o DrawCells(last, frame, idx + 1,
                               [ fg |-> cell.fg, bg |-> cell.bg, bold |-> cell.bold ])

\* DrawTrailer that leaves the attributes of the last written cell in force.
DrawTrailerNoReset == << >>

\* Terminal::draw, lines 113-114
DrawTrailer == << <<"SetAttribute", "Reset">>, <<"ResetColor">> >>

\* Terminal::draw: everything one call queues.
DrawCommands(last, frame) ==
    (IF NeedsFullRedraw(last, frame) THEN << <<"Clear">> >> ELSE << >>)
    \o DrawCells(last, frame, 0, DefaultPen)
    \o DrawTrailer

\* The terminal emulator's answer to one crossterm command.
ApplyCommand(t, c) ==
    CASE c[1] = "Clear" ->
           [ t EXCEPT !.cells = [ p \in Positions |-> BlankCell(t.pen.bg) ] ]
      [] c[1] = "MoveTo" -> [ t EXCEPT !.cursor = <<c[2], c[3]>> ]
      [] c[1] = "SetForegroundColor" -> [ t EXCEPT !.pen.fg = c[2] ]
      [] c[1] = "SetBackgroundColor" -> [ t EXCEPT !.pen.bg = c[2] ]
      [] c[1] = "SetAttribute" ->
           IF c[2] = "Bold" THEN [ t EXCEPT !.pen.bold = TRUE ]
           ELSE IF c[2] = "NormalIntensity" THEN [ t EXCEPT !.pen.bold = FALSE ]
           ELSE [ t EXCEPT !.pen = DefaultPen ]
      [] c[1] = "ResetColor" -> [ t EXCEPT !.pen.fg = NoColor, !.pen.bg = NoColor ]
      [] c[1] = "Print" ->
           [ t EXCEPT !.cells = IF t.cursor \in Positions
                                THEN [ @ EXCEPT ![t.cursor] =
                                         [ ch |-> c[2], fg |-> t.pen.fg,
                                           bg |-> t.pen.bg, bold |-> t.pen.bold ] ]
                                ELSE @,
                      !.cursor = <<t.cursor[1] + 1, t.cursor[2]>> ]

RECURSIVE ApplyCommands(_, _)
ApplyCommands(t, cmds) ==
    IF cmds = << >> THEN t
    ELSE ApplyCommands(ApplyCommand(t, Head(cmds)), Tail(cmds))

\* Terminal::new: the screen cleared, nothing retained.
TermInit ==
    /\ term_last = << >>
    /\ term_prev = << >>
    /\ out = << >>
    /\ screen = [ cells |-> [ p \in Positions |-> BlankCell(NoColor) ],
                  cursor |-> <<0, 0>>, pen |-> DefaultPen ]

\* Terminal::draw(frame), the write succeeding.
TermDraw ==
    \E frame \in Frames :
        LET cmds == DrawCommands(term_last, frame)
        IN  /\ out' = cmds
            /\ screen' = ApplyCommands(screen, cmds)
            /\ term_prev' = term_last
            /\ term_last' = << frame >>
            /\ UNCHANGED <<cloudVars, attrVars, lifeVars>>

\* ------------------------------------------------------- calls of get_attr

BoldModes == { "Off", "Random", "All" }
ColorModes == { "Mono", "Color" }
CharLocs == { "Middle", "Tail", "Head" }

\* The glitch windows (last_glitch_time, next_glitch_time) and the instants of
\* the calls; the second window is empty.
GlitchWindows == { <<0, 4>>, <<1, 1>> }
AttrInstants == 0 .. 5

\* The arguments of get_attr for a two-line, one-column viewport and a droplet
\* of length 2 whose head is on line 1: the glyph is '0' (48).
AttrInputsOf(sizes) ==
    { [ ctx |-> [ lines |-> 2, shading_distance |-> x[1], color_mode |-> x[2],
                  bold_mode |-> x[3], glitchy |-> x[4],
                  last_glitch_time |-> x[5][1], next_glitch_time |-> x[5][2],
                  palette_colors |-> PaletteOf(x[6][1]),
                  color_map |-> << x[6][2], x[6][2] >>,
                  glitch_map |-> << x[7], x[7] >> ],
        line |-> x[8], col |-> 0, val |-> 48, loc |-> x[9], now |-> x[10],
        head_put_line |-> 1, length |-> 2 ] :
      x \in BOOLEAN \X ColorModes \X BoldModes \X BOOLEAN
            \X GlitchWindows
            \X { nc \in sizes \X (0 .. 2) : nc[2] \in ColorMapRange(nc[1]) }
            \X BOOLEAN \X (0 .. 1) \X CharLocs \X AttrInstants }

AttrInputs == AttrInputsOf(PaletteSizes)

\* DrawCtx is a public struct of public fields: get_attr can also be called
\* with a palette build_palette never gives, the empty one.
AttrAnyInputs == AttrInputsOf({ 0, 1, 3 })

\* No call of get_attr under way.
AttrIdle == attr = [ in |-> << >>, out |-> << >> ]

\* The arguments of a call: the clock has not run backwards since the window
\* was opened.
AttrInit ==
    \E i \in AttrInputs :
        /\ i.now >= i.ctx.last_glitch_time
        /\ attr = [ in |-> << i >>, out |-> << >> ]

\* The arguments of a call on any DrawCtx.
AttrAnyInit ==
    \E i \in AttrAnyInputs :
        /\ i.now >= i.ctx.last_glitch_time
        /\ attr = [ in |-> << i >>, out |-> << >> ]

\* DrawCtx::get_attr called on the arguments.
AttrCall ==
    /\ attr.in # << >> /\ attr.out = << >>
    /\ LET i == attr.in[1]
       IN  attr' = [ attr EXCEPT !.out =
                       << GetAttr(i.ctx, i.line, i.col, i.val, i.loc, i.now,
                                  i.head_put_line, i.length) >> ]
    /\ UNCHANGED <<cloudVars, termVars, lifeVars>>

\* ------------------------------------------------------------ the process

\* main() after Terminal::new and the setup: in the frame loop, raw mode on,
\* the alternate screen entered, the cursor hidden.
LifeRunning ==
    life = [ pc |-> "loop", raw |-> TRUE, alt |-> TRUE, hidden |-> TRUE, error |-> FALSE,
             resizes |-> 0 ]

\* main() about to call Terminal::new.
LifeStart ==
    life = [ pc |-> "new_raw", raw |-> FALSE, alt |-> FALSE, hidden |-> FALSE,
             error |-> FALSE, resizes |-> 0 ]

\* `?` in Terminal::new: the error leaves main() with no Terminal built, so no
\* Drop runs.
NewFails == [ life EXCEPT !.pc = "exited", !.error = TRUE ]

\* Terminal::new, line 24
NewEnableRaw ==
    /\ life.pc = "new_raw"
    /\ \/ life' = [ life EXCEPT !.pc = "new_alt", !.raw = TRUE ]
       \/ life' = NewFails
    /\ UNCHANGED <<cloudVars, termVars, attrVars>>

\* Terminal::new, line 25
NewEnterAlternate ==
    /\ life.pc = "new_alt"
    /\ \/ life' = [ life EXCEPT !.pc = "new_hide", !.alt = TRUE ]
       \/ life' = NewFails
    /\ UNCHANGED <<cloudVars, termVars, attrVars>>

\* Terminal::new, line 26
NewHideCursor ==
    /\ life.pc = "new_hide"
    /\ \/ life' = [ life EXCEPT !.pc = "new_clear", !.hidden = TRUE ]
       \/ life' = NewFails
    /\ UNCHANGED <<cloudVars, termVars, attrVars>>

\* Terminal::new, lines 27-29: the clear and the flush, then the Terminal.
NewClear ==
    /\ life.pc = "new_clear"
    /\ \/ life' = [ life EXCEPT !.pc = "setup" ]
       \/ life' = NewFails
    /\ UNCHANGED <<cloudVars, termVars, attrVars>>

\* Drop for Terminal: the attributes reset, the cursor shown, the alternate
\* screen left, raw mode disabled.
DropTerminal(l) == [ l EXCEPT !.pc = "exited", !.raw = FALSE, !.alt = FALSE, !.hidden = FALSE ]

\* main(), lines 171-232: term.size() and the setup of the cloud succeed.
SetupDone ==
    /\ life.pc = "setup"
    /\ life' = [ life EXCEPT !.pc = "loop" ]
    /\ UNCHANGED <<cloudVars, termVars, attrVars>>

\* main(), line 171: term.size() fails; `?` returns and drops the Terminal.
SetupSizeFails ==
    /\ life.pc = "setup"
    /\ life' = [ DropTerminal(life) EXCEPT !.error = TRUE ]
    /\ UNCHANGED <<cloudVars, termVars, attrVars>>

\* main(), lines 201, 211 and 220: --chars or --charset is refused and
\* std::process::exit(1) ends the process; no destructor runs.
SetupExit ==
    /\ life.pc = "setup"
    /\ life' = [ life EXCEPT !.pc = "exited", !.error = TRUE ]
    /\ UNCHANGED <<cloudVars, termVars, attrVars>>

\* main(), line 336: term.draw(&frame) succeeds and the loop goes on.
LoopDraw ==
    /\ life.pc = "loop"
    /\ TermDraw

\* main(), lines 240-241, 336: poll_event, read_event or draw fails; `?`
\* leaves the loop, with no retry, and drops the Terminal.
LoopFails ==
    /\ life.pc = "loop"
    /\ life' = [ DropTerminal(life) EXCEPT !.error = TRUE ]
    /\ UNCHANGED <<cloudVars, termVars, attrVars>>

\* main(), lines 255-256, 353: Esc or q ends the loop; the Terminal is dropped.
LoopQuit ==
    /\ life.pc = "loop"
    /\ life' = DropTerminal(life)
    /\ UNCHANGED <<cloudVars, termVars, attrVars>>

\* ------------------------------------------------------ the specifications

Init == CloudInit /\ TermInit /\ AttrIdle /\ LifeRunning

Next == Rain \/ RainPaused \/ TogglePause \/ ResetKey

\* The cloud under ticks and keys.
Spec == Init /\ [][Next]_vars

TermNext == TermDraw

\* The terminal writer under any sequence of frames.
SpecTerm == Init /\ [][TermNext]_vars

AttrSpecInit == CloudInit /\ TermInit /\ AttrInit /\ LifeRunning

AttrNext == AttrCall

\* One call of get_attr on any of the arguments.
SpecAttr == AttrSpecInit /\ [][AttrNext]_vars

AttrAnySpecInit == CloudInit /\ TermInit /\ AttrAnyInit /\ LifeRunning

\* One call of get_attr on any DrawCtx, the palette empty or not.
SpecAttrAny == AttrAnySpecInit /\ [][AttrNext]_vars

\* The rain under every look of Looks, with the keys of Spec.
LookInit == CloudInitWith(LookConfigs, Looks) /\ TermInit /\ AttrIdle /\ LifeRunning

SpecLook == LookInit /\ [][Next]_vars

\* The rain with resize events, with and without a message.
ViewInit == CloudInitWith(ViewConfigs, ViewLooks) /\ TermInit /\ AttrIdle /\ LifeRunning

ViewNext == Rain \/ RainPaused \/ TogglePause \/ ResetKey \/ Resize

SpecView == ViewInit /\ [][ViewNext]_vars

\* The rain of two columns of three lines over a glyph pool with one entry for
\* each line, so that the rows of one droplet read different entries, as they do
\* in a terminal of fewer lines than the 2048 entries of init_chars; glitches
\* every 2 ms on a random part of the cells, distance shading off.
SkipConfigs ==
    { [ cols |-> 2, lines |-> 3, speed |-> 1000, density |-> 100, maxdpc |-> 1,
        linger |-> <<2, 2>> ] }

SkipLooks ==
    { [ PlainLook EXCEPT !.glitchy = TRUE, !.glitch_ms = <<2, 2>>,
                         !.char_pool = << "0", "0", "0" >>,
                         !.glitch_pool = << "1", "2" >>,
                         !.palette_colors = PaletteOf(1),
                         !.die_early_pct = 0, !.short_pct = 0 ] }

SkipInit == CloudInitWith(SkipConfigs, SkipLooks) /\ TermInit /\ AttrIdle /\ LifeRunning

SkipInstants == { t \in clock .. clock + MaxDt : t <= SkipMaxTime }

SkipRain == RainAt(SkipInstants)

SkipNext == SkipRain

SpecSkip == SkipInit /\ [][SkipNext]_vars

\* The rain of two columns of up to two droplets each under ticks, the speed
\* keys, the async key and the space key.
SpeedConfigs ==
    { [ cols |-> 2, lines |-> 3, speed |-> 1000, density |-> 200, maxdpc |-> 2,
        linger |-> <<2, 2>> ] }

SpeedInit == CloudInitWith(SpeedConfigs, { PlainLook }) /\ TermInit /\ AttrIdle /\ LifeRunning

SpeedInstants == { t \in clock .. clock + MaxDt : t <= SpeedMaxTime }

SpeedRain == RainAt(SpeedInstants)

SpeedNext == SpeedRain \/ AsyncKey \/ UpKey \/ DownKey \/ ResetKey

SpecSpeed == SpeedInit /\ [][SpeedNext]_vars

\* The rain of one column under ticks and keys, with glitches 1 to 2 ms apart on
\* a random part of the cells.
GlitchConfigs ==
    { [ cols |-> 1, lines |-> 3, speed |-> 1000, density |-> 100, maxdpc |-> 1,
        linger |-> <<2, 2>> ] }

GlitchLooks ==
    { [ PlainLook EXCEPT !.glitchy = TRUE, !.glitch_ms = <<1, 2>>,
                         !.palette_colors = PaletteOf(1) ] }

GlitchInit == CloudInitWith(GlitchConfigs, GlitchLooks) /\ TermInit /\ AttrIdle /\ LifeRunning

SpecGlitch == GlitchInit /\ [][Next]_vars

\* One droplet from its spawn to its death, under ticks only.
DropInit == CloudInitWith(DropConfigs, DropLooks) /\ TermInit /\ AttrIdle /\ LifeRunning

DropRain == RainAt(DropInstants)

DropNext == DropRain

SpecDrop == DropInit /\ [][DropNext]_vars

\* One droplet from its spawn to its death under a fair frame loop: the loop
\* calls rain() again and again, and the clock moves on between two frames.
LiveInit == CloudInitWith(LiveConfigs, DropLooks) /\ TermInit /\ AttrIdle /\ LifeRunning

LiveRain == RainAt(LiveInstants)

LiveNext == LiveRain

\* A call of rain that finds the clock moved on.  Only rain sets the clock, and
\* a call goes through for every instant, so the step is one of LiveRain and
\* is enabled whenever rain is not paused and the run has time left.
LiveTock ==
    /\ cloud.fault = "none"
    /\ ~PausedReturn(cloud)
    /\ clock' \in LiveInstants
    /\ clock' > clock

LiveFair == WF_clock(LiveTock)

SpecDropLive == LiveInit /\ [][LiveNext]_vars /\ LiveFair

LifeInit == CloudInit /\ TermInit /\ AttrIdle /\ LifeStart

LifeNext ==
    \/ NewEnableRaw \/ NewEnterAlternate \/ NewHideCursor \/ NewClear
    \/ SetupDone \/ SetupSizeFails \/ SetupExit
    \/ LoopDraw \/ LoopFails \/ LoopQuit

\* The process from Terminal::new to its end.
SpecLife == LifeInit /\ [][LifeNext]_vars

\* ----------------------------------------------------------------- claims

\* fill_droplet has initialised the slot at least once since the last reset.
Spawned(d) == d.bound_col # U16Max

\* Cloud::rain's threshold, a quarter of the viewport height.
ThreshLine == cloud.lines \div 4

\* The alive droplets bound to column col.
AliveIn(col) == { i \in Slots : droplets[i].is_alive /\ droplets[i].bound_col = col }

\* C1: for every spawned droplet, in every reachable state, tail_put_line (when
\* set) <= head_put_line <= end_line.
C1_PutLinesOrdered ==
    \A i \in Slots :
        Spawned(droplets[i]) =>
            /\ IsSome(droplets[i].tail_put_line) =>
                   droplets[i].tail_put_line <= droplets[i].head_put_line
            /\ droplets[i].head_put_line <= droplets[i].end_line

\* A droplet whose head has stopped at its end line and whose tail is set and
\* still behind the head.
C1_Witness ==
    \E i \in Slots :
        /\ Spawned(droplets[i]) /\ droplets[i].is_alive
        /\ IsSome(droplets[i].tail_put_line)
        /\ droplets[i].tail_put_line < droplets[i].head_put_line
        /\ droplets[i].head_put_line = droplets[i].end_line
        /\ droplets[i].end_line < cloud.lines - 1

\* C2: after every advance call on a spawned droplet, the droplet is alive if
\* and only if its tail put-line is not set or differs from its head put-line.
C2_AliveIffTailBehindHead ==
    \A i \in tick.advanced :
        droplets[i].is_alive <=>
            (droplets[i].tail_put_line = None
             \/ droplets[i].tail_put_line # droplets[i].head_put_line)

\* C3: in every reachable state the number of simultaneously alive droplets
\* bound to any one column is at most max_droplets_per_column.
C3_AlivePerColumnBounded ==
    \A col \in Columns : Cardinality(AliveIn(col)) <= cloud.max_droplets_per_column

\* A column that holds as many alive droplets as allowed while its
\* spawn-allowed flag is set and a spawn is due: only the count refuses it.
C3_Witness ==
    \E col \in Columns :
        /\ Cardinality(AliveIn(col)) = cloud.max_droplets_per_column
        /\ col_stat[col].can_spawn
        /\ ToSpawn(cloud, clock) > 0

\* C4: at the end of every rain tick, each column's num_droplets equals the
\* number of alive droplets bound to that column.
C4_CountMatchesAlive ==
    tick.rained =>
        \A col \in Columns : col_stat[col].num_droplets = Cardinality(AliveIn(col))

\* C5: when a droplet dies during a tick with its tail put-line at or above the
\* quarter-of-height line, its column's spawn-allowed flag is true at the end
\* of that tick.
C5_DeathReenablesSpawn ==
    \A i \in tick.advanced :
        (~droplets[i].is_alive
         /\ (IF IsSome(droplets[i].tail_put_line) THEN droplets[i].tail_put_line ELSE 0)
                <= ThreshLine)
        => col_stat[droplets[i].bound_col].can_spawn

\* C6: spawn places a droplet only in a column whose spawn-allowed flag is true
\* and whose count is below max_droplets_per_column; every successful spawn
\* leaves that column's flag false and its count one higher.
C6_SpawnGated ==
    [][ \A i \in tick'.spawned :
            LET col == droplets'[i].bound_col
            IN  /\ col \in Columns
                /\ col_stat[col].can_spawn
                /\ col_stat[col].num_droplets < cloud.max_droplets_per_column
                /\ ~col_stat'[col].can_spawn
                /\ col_stat'[col].num_droplets = col_stat[col].num_droplets + 1
                /\ droplets'[i].is_alive /\ ~droplets[i].is_alive ]_vars

\* A tick that spawned two droplets.
C6_Witness == tick.rained /\ Cardinality(tick.spawned) = 2

\* C7: over one droplet lifetime advance returns true at most once, and only in
\* a step in which the tail put-line moves from at or above lines/4 (or unset)
\* to strictly below it; at the end of that tick the droplet is alive and its
\* column is marked spawn-allowed.
C7_FreesColumnOnce ==
    [][ \A i \in tick'.free :
            /\ free_count'[i] = 1
            /\ (droplets[i].tail_put_line = None
                \/ droplets[i].tail_put_line <= ThreshLine)
            /\ droplets'[i].tail_put_line > ThreshLine
            /\ droplets'[i].is_alive
            /\ col_stat'[droplets'[i].bound_col].can_spawn ]_vars

\* A droplet that returned true in an earlier tick and has moved its tail again
\* since.
C7_Witness ==
    \E i \in Slots :
        /\ free_count[i] = 1 /\ i \notin tick.free
        /\ i \in tick.advanced /\ tick.whole[i] >= 1
        /\ droplets[i].tail_cur_line > ThreshLine
        /\ droplets[i].tail_put_line > droplets[i].tail_cur_line

\* C8 as stated: the head-crawling flag becomes false exactly once per lifetime,
\* in the first advance step in which head put-line equals end line, and
\* head_stop_time is set in that step: so after any advance call that leaves the
\* head on the end line the flag is false and the stop time set, and no droplet
\* dies with the flag still true.
C8_StopsWhenHeadAtEnd ==
    \A i \in tick.advanced :
        /\ droplets[i].head_put_line = droplets[i].end_line =>
               ~droplets[i].is_head_crawling /\ IsSome(droplets[i].head_stop_time)
        /\ ~droplets[i].is_alive => ~droplets[i].is_head_crawling

\* C8 amended: the flag changes from true to false at most once per lifetime,
\* in the first advance step with a whole quantity >= 1 that leaves the head on
\* the end line; head_stop_time is set in exactly that step and advance never
\* changes it afterwards.
C8_HeadStopsAtMostOnce ==
    [][ \A i \in tick'.advanced \ tick'.spawned :
            LET d == droplets[i]
                e == droplets'[i]
                stops == d.is_head_crawling /\ ~e.is_head_crawling
            IN  /\ ~d.is_head_crawling => ~e.is_head_crawling
                /\ stops <=> (d.is_head_crawling /\ tick'.whole[i] >= 1
                              /\ e.head_put_line = e.end_line)
                /\ stops => d.head_stop_time = None /\ e.head_stop_time = clock'
                /\ ~stops => e.head_stop_time = d.head_stop_time
                /\ e.is_head_crawling => e.head_stop_time = None ]_vars

\* A droplet whose head stopped in an earlier tick and that has advanced by a
\* whole quantity since.
C8_Witness ==
    \E i \in tick.advanced :
        /\ ~droplets[i].is_head_crawling
        /\ IsSome(droplets[i].head_stop_time)
        /\ droplets[i].head_stop_time < clock
        /\ tick.whole[i] >= 1
        /\ droplets[i].end_line > 0

\* The frame the terminal retains, and the one it retained before the last draw.
LastFrame == term_last[1]
PrevFrame == term_prev[1]

\* The commands of `out` named cmd, in order.
Queued(cmd) == SelectSeq(out, LAMBDA c : c[1] = cmd)

\* The cell indices at which the last draw's frame differs from the frame
\* retained before it (same dimensions).
DiffIdx == { idx \in 0 .. LastFrame.width * LastFrame.height - 1 :
             PrevFrame.cells[idx + 1] # LastFrame.cells[idx + 1] }

SameDims(f, g) == f.width = g.width /\ f.height = g.height

\* C9: after any sequence of successful draws the displayed grid equals the
\* last frame in every cell, which is the frame the terminal retains; a clear
\* with every cell written happens exactly when no frame was retained or the
\* dimensions differ.
C9_ScreenShowsLastFrame ==
    term_last # << >> =>
        /\ \A idx \in 0 .. LastFrame.width * LastFrame.height - 1 :
               screen.cells[<<idx % LastFrame.width, idx \div LastFrame.width>>]
                   = LastFrame.cells[idx + 1]
        /\ (Queued("Clear") # << >>
            /\ Len(Queued("Print")) = LastFrame.width * LastFrame.height)
           <=> (term_prev = << >> \/ ~SameDims(PrevFrame, LastFrame))
        /\ Len(Queued("Clear")) <= 1
        /\ Queued("Clear") # << >> => out[1] = <<"Clear">>

\* A frame drawn over a retained frame of other dimensions, both holding a
\* bold glyph.
C9_Witness ==
    /\ term_last # << >> /\ term_prev # << >>
    /\ ~SameDims(PrevFrame, LastFrame)
    /\ \E i \in DOMAIN LastFrame.cells : LastFrame.cells[i].bold
    /\ \E i \in DOMAIN PrevFrame.cells : PrevFrame.cells[i].bold
    /\ \E i \in DOMAIN LastFrame.cells : ~LastFrame.cells[i].bold

\* C10: a frame of the retained frame's dimensions that differs from it in
\* exactly one cell makes the writer queue one cursor move, to that cell, one
\* glyph write, of that cell's glyph, and an attribute command for exactly
\* those of the cell's attributes that differ from the default ones the writer
\* starts from; then the trailer.
C10_OneCellDiff ==
    (term_last # << >> /\ term_prev # << >>
     /\ SameDims(PrevFrame, LastFrame) /\ Cardinality(DiffIdx) = 1)
    => LET idx == CHOOSE k \in DiffIdx : TRUE
           cell == LastFrame.cells[idx + 1]
       IN  /\ Queued("MoveTo")
                  = << <<"MoveTo", idx % LastFrame.width, idx \div LastFrame.width>> >>
           /\ Queued("Print") = << <<"Print", cell.ch>> >>
           /\ Queued("Clear") = << >>
           /\ Queued("SetForegroundColor")
                  = IF cell.fg # NoColor THEN << <<"SetForegroundColor", cell.fg>> >>
                                         ELSE << >>
           /\ Queued("SetBackgroundColor")
                  = IF cell.bg # NoColor THEN << <<"SetBackgroundColor", cell.bg>> >>
                                         ELSE << >>
           /\ Queued("SetAttribute")
                  = (IF cell.bold THEN << <<"SetAttribute", "Bold">> >> ELSE << >>)
                    \o << <<"SetAttribute", "Reset">> >>
           /\ Queued("ResetColor") = << <<"ResetColor">> >>
           /\ out[1][1] = "MoveTo" /\ out[Len(out) - 2][1] = "Print"

\* A two-cell frame drawn over one that differs in the second cell only, the
\* new cell being bold on a colored background, the unchanged one not blank.
C10_Witness ==
    /\ term_last # << >> /\ term_prev # << >>
    /\ SameDims(PrevFrame, LastFrame)
    /\ DiffIdx = { 1 }
    /\ LastFrame.cells[2].bold /\ LastFrame.cells[2].bg # NoColor
    /\ LastFrame.cells[1].ch # " "

\* The timestamp t seen from instant `at`: the time elapsed since t.
Age(at, t) == IF IsSome(t) THEN at - t ELSE None

\* C11: a pause followed by a resume, with nothing but paused ticks in between,
\* preserves the elapsed times: for every droplet alive at the resume, the
\* resume instant minus last_time equals the pause instant minus last_time
\* before the pause, likewise for head_stop_time and for last_spawn_time.
C11_ResumeKeepsElapsed ==
    (pause_snap # << >> /\ pause_snap[1].resumed) =>
        LET s == pause_snap[1]
        IN  /\ clock - cloud.last_spawn_time = s.at - s.last_spawn_time
            /\ \A i \in Slots :
                   droplets[i].is_alive =>
                       /\ s.droplets[i].is_alive
                       /\ Age(clock, droplets[i].last_time)
                              = Age(s.at, s.droplets[i].last_time)
                       /\ Age(clock, droplets[i].head_stop_time)
                              = Age(s.at, s.droplets[i].head_stop_time)

\* A resume two milliseconds or more after the pause, with a droplet alive whose
\* head had stopped before the pause, and a droplet spawned before it.
C11_Witness ==
    /\ pause_snap # << >> /\ pause_snap[1].resumed
    /\ clock >= pause_snap[1].at + 2
    /\ \E i \in Slots : droplets[i].is_alive /\ IsSome(droplets[i].head_stop_time)
                        /\ droplets[i].head_stop_time > pause_snap[1].at
    /\ cloud.last_spawn_time > 0

\* C12: while the cloud is paused a call of rain changes nothing: no droplet is
\* spawned or advanced, the column status, the glitch window, the glyph pools
\* and every other field of the cloud are as they were, and no cell of the
\* frame is written.
C12_PausedTickChangesNothing ==
    [][ (cloud.pause /\ (tick'.rained \/ tick'.skipped)) =>
            /\ tick'.spawned = {} /\ tick'.advanced = {} /\ ~tick'.rained
            /\ col_stat' = col_stat
            /\ cloud'.last_glitch_time = cloud.last_glitch_time
            /\ cloud'.next_glitch_time = cloud.next_glitch_time
            /\ cloud'.char_pool = cloud.char_pool
            /\ cloud'.glitch_pool = cloud.glitch_pool
            /\ cloud'.glitch_pool_idx = cloud.glitch_pool_idx
            /\ main_frame' = main_frame
            /\ UNCHANGED <<clock, cloud, droplets, free_count>> ]_vars

\* A call of rain that returned at once while a droplet was alive, a spawn was
\* due and the glitch window had run out on glitched cells.
C12_Witness ==
    /\ tick.skipped /\ cloud.pause
    /\ \E i \in Slots : droplets[i].is_alive
    /\ ToSpawn(cloud, clock) > 0
    /\ TimeForGlitch(cloud, clock)
    /\ \E i \in DOMAIN cloud.glitch_map : cloud.glitch_map[i]

\* The arguments and the result of the call of get_attr, once made.
AttrIn == attr.in[1]
AttrOut == attr.out[1]
LastIdx == SatSub(Len(AttrIn.ctx.palette_colors), 1)

\* The call was on a glitch-eligible cell with glitch mode on.
Glitched == AttrIn.ctx.glitchy /\ GetOr(AttrIn.ctx.glitch_map, AttrIn.line, FALSE)

\* elapsed / window of the call, as the pair (elapsed, window).
GlitchElapsed == AttrIn.now - AttrIn.ctx.last_glitch_time
GlitchWindow == AttrIn.ctx.next_glitch_time - AttrIn.ctx.last_glitch_time
BrightPhase == GlitchWindow > 0 /\ 4 * GlitchElapsed <= GlitchWindow
DimPhase == GlitchWindow > 0 /\ 4 * GlitchElapsed >= 3 * GlitchWindow

\* The color index before the glitch: the color map's entry, or the one
\* distance shading computes.
Baseline ==
    BaseColorIdx(AttrIn.ctx, AttrIn.line, AttrIn.col, AttrIn.head_put_line, AttrIn.length)

\* C17 as stated: for a Head cell the final color index is the last palette
\* index and bold is true, whatever the shading mode, the glitch eligibility,
\* the glitch phase and the bold mode.
C17_HeadIsLastAndBold ==
    (attr.out # << >> /\ AttrIn.loc = "Head") =>
        AttrOut.color_idx = LastIdx /\ AttrOut.bold

\* C17 amended: for a Head cell the final color index is the last palette
\* index whatever the shading and the glitch, and bold is true unless the bold
\* mode is Off, which forces it false.
C17_HeadIsLastBoldUnlessOff ==
    (attr.out # << >> /\ AttrIn.loc = "Head") =>
        /\ AttrOut.color_idx = LastIdx
        /\ AttrOut.bold <=> (AttrIn.ctx.bold_mode # "Off")
        /\ AttrOut.fg = IF AttrIn.ctx.color_mode = "Mono" THEN NoColor
                        ELSE AttrIn.ctx.palette_colors[LastIdx + 1]

\* A Head cell in the dim phase of a glitch, under distance shading and the
\* Random bold mode, on a line whose parity gives bold = false: every earlier
\* rule says not bold and a lower index.
C17_Witness ==
    /\ attr.out # << >> /\ AttrIn.loc = "Head"
    /\ Glitched /\ DimPhase /\ AttrIn.ctx.shading_distance
    /\ AttrIn.ctx.bold_mode = "Random" /\ ~BaseBold(AttrIn.ctx, AttrIn.line, AttrIn.val)
    /\ Baseline < LastIdx
    /\ AttrOut.bold

C13_ViewportAgrees ==
    cloud.fault = "none" =>
        /\ main_frame.width = cloud.cols /\ main_frame.height = cloud.lines
        /\ Len(main_frame.cells) = cloud.cols * cloud.lines
        /\ DOMAIN col_stat = 0 .. cloud.cols - 1
        /\ DOMAIN droplets = 0 .. PoolSize(cloud.cols) - 1
        /\ cloud.num_droplets = PoolSize(cloud.cols)
        /\ Len(cloud.color_map) = cloud.lines * cloud.cols
        /\ cloud.glitchy => Len(cloud.glitch_map) = cloud.lines * cloud.cols
        /\ \A i \in DOMAIN droplets :
              droplets[i].is_alive => droplets[i].bound_col < cloud.cols

\* C13 happens: a resize event has made the viewport one column narrower, and
\* a pass of rain has since spawned a droplet in the column that is left.
C13_Witness ==
    /\ life.resizes = 1 /\ cloud.cols = 1 /\ cloud.fault = "none"
    /\ tick.rained
    /\ \E i \in DOMAIN droplets : droplets[i].is_alive

\* C14: reset(cols, lines) and the passes of rain that follow never fault,
\* whatever the viewport and the message.
C14_NeverFaults == cloud.fault = "none"

\* The cell draw_message stores for the k-th character of the message, and the
\* index of its target in the cells of the frame.
MessageCell(k) ==
    [ ch |-> cloud.message[k].val, fg |-> MessageFg(cloud), bg |-> cloud.bg,
      bold |-> cloud.bold_mode # "Off" ]
TargetIdx(k) == cloud.message[k].line * main_frame.width + cloud.message[k].col + 1

\* C16: the visible flag of a message character goes from false to true only in
\* a pass of rain whose draw pass left something other than a space at the
\* character's target; a character that is visible when a pass of rain starts is
\* still visible after it and the pass has stored it at its target.
C16_MessageFollowsRain ==
    [][ \A k \in DOMAIN cloud.message \cap DOMAIN cloud'.message :
          /\ (~cloud.message[k].draw /\ cloud'.message[k].draw)
                => /\ tick'.rained
                   /\ TargetIdx(k)' \in DOMAIN tick'.rain_cells
                   /\ tick'.rain_cells[TargetIdx(k)'].ch # " "
          /\ (cloud.message[k].draw /\ tick'.rained)
                => /\ cloud'.message[k].draw
                   /\ TargetIdx(k)' = TargetIdx(k)
                   /\ main_frame'.cells[TargetIdx(k)'] = MessageCell(k)'
                   /\ [ x |-> cloud.message[k].col, y |-> cloud.message[k].line,
                         cell |-> MessageCell(k)' ] \in main_frame'.written ]_vars

\* C16 happens: after a pass of rain one character of the message is shown
\* where the draw pass left a blank, the rain having moved on, and another
\* character is not visible yet.
C16_Witness ==
    /\ tick.rained
    /\ \E k \in DOMAIN cloud.message :
          /\ cloud.message[k].draw
          /\ tick.rain_cells[TargetIdx(k)].ch = " "
          /\ main_frame.cells[TargetIdx(k)] = MessageCell(k)
    /\ \E j \in DOMAIN cloud.message : ~cloud.message[j].draw

\* C19: in monochrome color mode every cell a pass of rain has stored in the
\* frame (glyph, tail blank, full-width filler, message character) has no
\* foreground, and so has every cell of the frame.
C19_MonoHasNoForeground ==
    cloud.color_mode = "Mono" =>
        /\ \A w \in main_frame.written : w.cell.fg = NoColor
        /\ \A i \in DOMAIN main_frame.cells : main_frame.cells[i].fg = NoColor

\* C19 happens: a pass of rain in monochrome mode stored a glyph on a glitched
\* cell, a blank and a message character, with a palette of three colors.
C19_Witness ==
    /\ cloud.color_mode = "Mono" /\ tick.rained
    /\ Len(cloud.palette_colors) = 3
    /\ \E w \in main_frame.written :
          w.cell.ch \in Glyphs /\ IsGlitched(cloud, w.y, w.x)
    /\ \E w \in main_frame.written : w.cell.ch = " "
    /\ \E w \in main_frame.written : w.cell.ch \in { "H", "I" }

\* C20: the first pass of rain after a reset on a viewport with at least one
\* column, made while not paused at an instant for which spawn_droplets computes
\* to_spawn >= 1, initialises at least one droplet, and leaves some column with
\* num_droplets >= 1.
C20_FirstTickSpawns ==
    [][ ( /\ cloud.force_draw_everything
          /\ ~cloud.pause
          /\ cloud.cols >= 1
          /\ tick'.rained
          /\ ToSpawn(cloud, clock') >= 1 )
        => /\ tick'.spawned # {}
           /\ \E col \in DOMAIN col_stat' : col_stat'[col].num_droplets >= 1
           /\ \E i \in tick'.spawned : droplets'[i].is_alive ]_vars

\* C20 happens: the first pass of rain after a reset, made two milliseconds or
\* more into the run, initialised a droplet.
C20_Witness ==
    /\ tick.rained /\ tick.draw_everything
    /\ tick.spawned # {}
    /\ clock >= 2
    /\ \E col \in DOMAIN col_stat : col_stat[col].num_droplets >= 1

\* C15: whenever the process has ended after terminal initialisation began,
\* every terminal-mode change that was applied has been undone.
C15_ModesUndoneAtExit ==
    life.pc = "exited" => ~life.raw /\ ~life.alt /\ ~life.hidden

\* C21: with die_early_pct = 0 and short_pct = 0, every droplet initialised by
\* spawn has end_line = lines - 1 and length = lines, for every outcome of the
\* random draws.
C21_NoEarlyNoShort ==
    (cloud.die_early_pct = 0 /\ cloud.short_pct = 0) =>
        \A i \in Slots :
            Spawned(droplets[i]) =>
                /\ droplets[i].end_line = cloud.lines - 1
                /\ droplets[i].length = cloud.lines

\* C22: with die_early_pct = 1, every droplet initialised by spawn has an end
\* line within [0, lines - 2].
C22_EarlyEndsAboveLastLine ==
    cloud.die_early_pct = Milli =>
        \A i \in Slots :
            Spawned(droplets[i]) => droplets[i].end_line \in 0 .. cloud.lines - 2

\* The tick that spawned a droplet with die_early_pct = 1, the end line being
\* the highest the draw can give.
C22_Witness ==
    /\ cloud.die_early_pct = Milli
    /\ \E i \in tick.spawned : droplets[i].end_line = cloud.lines - 2

\* C28: for every spawned droplet, the linger duration lies in the configured
\* [linger_low_ms, linger_high_ms] range when end_line <= length, and is the
\* minimal 1 ms duration otherwise; it is never zero.
C28_LingerInRange ==
    \A i \in Slots :
        Spawned(droplets[i]) =>
            /\ droplets[i].end_line <= droplets[i].length =>
                   droplets[i].time_to_linger
                       \in cloud.linger_low_ms .. cloud.linger_high_ms
            /\ droplets[i].end_line > droplets[i].length =>
                   droplets[i].time_to_linger = 1
            /\ droplets[i].time_to_linger # 0

\* The tick that spawned a droplet whose end line lies beyond its length, while
\* the configured range starts above 1 ms.
C28_Witness ==
    /\ cloud.linger_low_ms > 1
    /\ \E i \in tick.spawned :
          /\ droplets[i].end_line > droplets[i].length
          /\ droplets[i].time_to_linger = 1

\* What Cloud::reset builds from its arguments: the size of the pool, the
\* column status, and the sizes of the glitch map and of the color map.
Shape(c, ds, cs) ==
    [ num_droplets |-> c.num_droplets,
      pool |-> DOMAIN ds,
      col_stat |-> [ col \in DOMAIN cs |->
                       << cs[col].num_droplets, cs[col].can_spawn >> ],
      glitch_map |-> Len(c.glitch_map),
      color_map |-> Len(c.color_map) ]

\* No rain has run since the last reset: reset sets force_draw_everything and
\* the first pass of rain clears it.
JustReset(c) == c.fault = "none" /\ c.force_draw_everything

\* C23: reset is structurally idempotent: calling reset(w, h) twice in
\* succession with the same arguments yields the same pool size, the same
\* number of column-status entries with identical count/spawn-allowed values,
\* and the same glitch-map and color-map dimensions as calling it once.
C23_ResetTwiceSameShape ==
    [][ (/\ JustReset(cloud) /\ JustReset(cloud')
         /\ cloud'.cols = cloud.cols /\ cloud'.lines = cloud.lines)
        => Shape(cloud', droplets', col_stat') = Shape(cloud, droplets, col_stat) ]_vars

\* The reset key pressed after the reset of the start, before any rain has
\* drawn into the frame main() created: the second reset has drawn its own
\* glitch window.
C23_Witness ==
    /\ JustReset(cloud) /\ tick = NoTick
    /\ life.resizes = 0
    /\ main_frame = FrameNew(cloud.cols, cloud.lines, cloud.bg)
    /\ cloud.last_glitch_time > 0
    /\ cloud.glitchy /\ Len(cloud.glitch_map) = cloud.cols * cloud.lines

\* C24: from the step in which the head stops at its end line (with linger
\* duration > 0) the tail put-line does not change until a step whose time is at
\* least time_to_linger after head_stop_time has re-enabled tail-crawling; the
\* tail first moves in a step strictly after that re-enabling step.
C24_LingerHoldsTail ==
    [][ \A i \in tick'.advanced \ tick'.spawned :
            LET d == droplets[i]
                e == droplets'[i]
                stops == d.is_head_crawling /\ ~e.is_head_crawling
            IN  /\ (stops /\ e.time_to_linger > 0) =>
                       ~e.is_tail_crawling /\ e.tail_put_line = d.tail_put_line
                /\ ~d.is_tail_crawling => e.tail_put_line = d.tail_put_line
                /\ (~d.is_tail_crawling /\ e.is_tail_crawling) =>
                       /\ IsSome(e.head_stop_time)
                       /\ tick'.whole[i] >= 1
                       /\ DurationSince(clock', e.head_stop_time) >= e.time_to_linger ]_vars

\* A droplet that could not move its tail before its head stopped (its end line
\* is not beyond its length), that lingered for 2 ms or more, and whose tail
\* has moved since and has not caught the head yet.
C24_Witness ==
    \E i \in tick.advanced :
        /\ droplets[i].is_alive /\ ~droplets[i].is_head_crawling
        /\ droplets[i].end_line <= droplets[i].length
        /\ droplets[i].time_to_linger >= 2
        /\ IsSome(droplets[i].tail_put_line)
        /\ tick.whole[i] >= 1

\* C25: in any advance step the tail put-line changes only if tail-crawling is
\* set and the head put-line has reached the target length or the end line; when
\* it changes it moves by the same whole advance quantity as the head would,
\* clamped to end line (the first tail value being that quantity itself).
C25_TailMovesWithHead ==
    [][ \A i \in tick'.advanced \ tick'.spawned :
            LET d == droplets[i]
                e == droplets'[i]
            IN  e.tail_put_line # d.tail_put_line =>
                    /\ d.is_tail_crawling /\ e.is_tail_crawling
                    /\ (e.head_put_line >= e.length \/ e.head_put_line >= e.end_line)
                    /\ tick'.whole[i] >= 1
                    /\ e.tail_put_line =
                           Min((IF IsSome(d.tail_put_line) THEN d.tail_put_line ELSE 0)
                                   + tick'.whole[i],
                               e.end_line) ]_vars

\* A droplet whose tail has moved in the last tick, to a line past its first
\* value and short of the end line, while the head is still on its way.
C25_Witness ==
    \E i \in tick.advanced :
        /\ droplets[i].is_alive /\ droplets[i].is_head_crawling
        /\ IsSome(droplets[i].tail_put_line)
        /\ tick.whole[i] >= 1
        /\ droplets[i].tail_put_line > tick.whole[i]
        /\ droplets[i].tail_put_line < droplets[i].end_line

\* The slots of the pool of one column.
DropSlots == 0 .. PoolSize(1) - 1

\* C26: every spawned droplet eventually becomes not-alive: while non-paused
\* ticks keep occurring and time keeps increasing, each alive droplet reaches
\* tail put-line = head put-line and is marked dead.
C26_EveryDropletDies ==
    \A i \in DropSlots :
        droplets[i].is_alive ~>
            (~droplets[i].is_alive
             /\ droplets[i].tail_put_line = droplets[i].head_put_line)

\* A droplet with end_line = 0 that has lingered and died.
C26_Witness ==
    \E i \in DropSlots :
        /\ Spawned(droplets[i]) /\ ~droplets[i].is_alive
        /\ droplets[i].end_line = 0
        /\ droplets[i].time_to_linger >= 2
        /\ droplets[i].tail_put_line = droplets[i].head_put_line

\* The thousandths of a glyph that the speed of droplet i gives over the time
\* from its activation to its last advance call, pauses left out.
Due(i) == droplets[i].chars_per_sec * (droplets[i].last_time - travel[i].since)

CoveredBesides(i, col, line) ==
    \/ \E j \in DOMAIN droplets \ {i} :
          /\ droplets[j].is_alive
          /\ droplets[j].bound_col = col
          /\ line <= droplets[j].head_put_line
          /\ IsSome(droplets[j].tail_put_line) => line > droplets[j].tail_put_line
    \/ \E k \in DOMAIN cloud.message :
          /\ cloud.message[k].draw
          /\ cloud.message[k].col = col
          /\ cloud.message[k].line = line

\* C29: at the end of the pass of rain in which a droplet dies, every cell of
\* its column from its last drawn tail position through its head put-line is
\* blank, unless another alive droplet or a visible message character covers it.
C29_DeadLeavesNoGlyphs ==
    \A i \in tick.advanced :
        ~droplets[i].is_alive =>
            \A line \in droplets[i].tail_cur_line .. droplets[i].head_put_line :
                \/ CoveredBesides(i, droplets[i].bound_col, line)
                \/ LET got == FrameGet(main_frame, droplets[i].bound_col, line)
                   IN  got # << >> => got[1].ch = " "

\* C30: with distance shading off, the frame a pass of rain leaves equals, cell
\* for cell, the frame the same pass leaves when every draw of its draw pass
\* redraws every row (draw_everything = true). Two runs that differ in the
\* skip only have the same droplets and the same frame up to the first pass
\* whose frames differ, so the sequence is compared pass by pass.
C30_SkipIsPureOptimisation ==
    (tick.rained /\ ~cloud.shading_distance) => main_frame.cells = tick.full_cells

\* C31: a pass of rain with glitch mode on at an instant now >= next_glitch_time
\* ends with last_glitch_time = now and next_glitch_time = now + d for a d in
\* [glitch_low_ms, glitch_high_ms]; every other pass, paused or not, leaves the
\* window as it was; and last_glitch_time <= next_glitch_time in every state.
C31_GlitchWindowScheduled ==
    /\ cloud.last_glitch_time <= cloud.next_glitch_time
    /\ [][ /\ cloud'.last_glitch_time <= cloud'.next_glitch_time
           /\ tick'.rained =>
                 IF cloud.glitchy /\ clock' >= cloud.next_glitch_time
                 THEN /\ cloud'.last_glitch_time = clock'
                      /\ cloud'.next_glitch_time - clock'
                            \in cloud.glitch_low_ms .. cloud.glitch_high_ms
                 ELSE /\ cloud'.last_glitch_time = cloud.last_glitch_time
                      /\ cloud'.next_glitch_time = cloud.next_glitch_time
           /\ tick'.skipped =>
                 /\ cloud'.last_glitch_time = cloud.last_glitch_time
                 /\ cloud'.next_glitch_time = cloud.next_glitch_time
         ]_vars

\* A pass of rain at the very instant next_glitch_time has moved the window,
\* which is longer than glitch_low_ms.
C31_Witness ==
    /\ tick.rained
    /\ tick.time_for_glitch
    /\ cloud.last_glitch_time = clock
    /\ clock > 0
    /\ cloud.next_glitch_time - clock > cloud.glitch_low_ms

\* The rows of droplet d that a glitch pass substitutes: the glitched rows of
\* its span from tail_put_line + 1 to head_put_line that are in the viewport.
GlitchedRows(c, d) ==
    { line \in (IF IsSome(d.tail_put_line) THEN d.tail_put_line + 1 ELSE 0)
                 .. d.head_put_line :
        line < c.lines /\ IsGlitched(c, line, d.bound_col) }

\* The substitutions of a glitch pass over the droplets of slots S.
RECURSIVE Substitutions(_, _, _)
Substitutions(c, ds, S) ==
    IF S = {} THEN 0
    ELSE LET i == CHOOSE j \in S : TRUE
         IN  Cardinality(GlitchedRows(c, ds[i])) + Substitutions(c, ds, S \ {i})

\* C32: in a pass of rain whose glitch is due, the only entries of char_pool
\* that change are those at (char_pool_idx + row) mod pool size for the glitched
\* rows of the span of a droplet the pass advanced; glitch_pool_idx moves on by
\* one for each substitution, modulo the size of glitch_pool, and stays below
\* it; the maps and glitch_pool are unchanged, a droplet of the pass is what
\* advance and draw make of it, a slot the pass did not touch is unchanged, and
\* so is the status of a column in which nothing spawned and nothing was freed.
C32_GlitchTouchesOnlySpans ==
    [][ tick'.time_for_glitch =>
          LET targets == UNION { { ((droplets'[i].char_pool_idx + line)
                                      % Len(cloud.char_pool)) + 1 :
                                    line \in GlitchedRows(cloud, droplets'[i]) } :
                                 i \in tick'.advanced }
              n == Substitutions(cloud, droplets', tick'.advanced)
          IN  /\ DOMAIN cloud'.char_pool = DOMAIN cloud.char_pool
              /\ \A k \in DOMAIN cloud.char_pool :
                    k \notin targets => cloud'.char_pool[k] = cloud.char_pool[k]
              /\ cloud'.glitch_pool_idx
                    = (cloud.glitch_pool_idx + n) % Len(cloud.glitch_pool)
              /\ cloud'.glitch_pool_idx < Len(cloud.glitch_pool)
              /\ cloud'.glitch_pool = cloud.glitch_pool
              /\ cloud'.glitch_map = cloud.glitch_map
              /\ cloud'.color_map = cloud.color_map
              /\ \A i \in DOMAIN droplets :
                    IF i \in tick'.spawned THEN TRUE
                    ELSE IF i \in tick'.advanced
                    THEN droplets'[i] = Draw(Advance(droplets[i], clock', cloud.lines).d)
                         \/ /\ ~droplets'[i].is_alive
                            /\ droplets'[i] = Advance(droplets[i], clock', cloud.lines).d
                    ELSE droplets'[i] = droplets[i]
              /\ \A col \in DOMAIN col_stat :
                    (\A i \in tick'.spawned \cup tick'.free :
                        droplets'[i].bound_col # col)
                    => col_stat'[col] = col_stat[col]
      ]_vars

\* A due glitch pass has made two substitutions or more, the cursor of
\* glitch_pool is back at its start and one entry of char_pool is as
\* init_chars left it.
C32_Witness ==
    /\ tick.time_for_glitch
    /\ \E i \in tick.advanced : Cardinality(GlitchedRows(cloud, droplets[i])) >= 2
    /\ cloud.glitch_pool_idx = 0
    /\ \E k \in DOMAIN cloud.char_pool : cloud.char_pool[k] = "2"
    /\ \E k \in DOMAIN cloud.char_pool : cloud.char_pool[k] = "0"

\* C33: the color index get_attr ends with is within [0, last palette index]
\* (0 for an empty palette) and is 0 for a Tail cell; with a palette that is
\* not empty and a color mode other than Mono the foreground is the palette's
\* color at that index, and with an empty palette the foreground is none.
C33_ColorIndexInPalette ==
    attr.out # << >> =>
        LET i == attr.in[1]
            o == attr.out[1]
            n == Len(i.ctx.palette_colors)
        IN  /\ o.color_idx \in 0 .. SatSub(n, 1)
            /\ i.loc = "Tail" => o.color_idx = 0
            /\ (n > 0 /\ i.ctx.color_mode # "Mono") =>
                   /\ o.fg # NoColor
                   /\ o.fg = i.ctx.palette_colors[o.color_idx + 1]
            /\ n = 0 => o.fg = NoColor

\* A glitched Middle cell of a one-color palette in a color mode, drawn in the
\* bright part of the glitch window: the index computed is 1, the last index 0.
C33_Witness ==
    /\ attr.out # << >>
    /\ attr.in[1].loc = "Middle"
    /\ Len(attr.in[1].ctx.palette_colors) = 1
    /\ attr.in[1].ctx.color_mode # "Mono"
    /\ attr.in[1].ctx.glitchy /\ attr.in[1].ctx.glitch_map[attr.in[1].line + 1]
    /\ IsBright(attr.in[1].ctx, attr.in[1].now)
    /\ attr.out[1].color_idx = 0
    /\ attr.out[1].fg = "c0"

\* The cells of the frame as the draw pass of the last pass of rain left them.
DrawnCells == IF tick.rain_cells = << >> THEN main_frame.cells ELSE tick.rain_cells

\* C34: in full-width mode every droplet a pass of rain has spawned is bound to
\* an even column, and for every glyph the draw pass wrote at (col, row) with
\* col + 1 inside the frame, the pass also wrote a blank cell at (col + 1, row)
\* and the cell is blank when the draw pass ends.
C34_FullWidthPairs ==
    (tick.rained /\ cloud.full_width) =>
        /\ \A i \in tick.spawned : droplets[i].bound_col % 2 = 0
        /\ \A w \in tick.rain_written :
              (w.cell.ch # " " /\ w.x + 1 < main_frame.width) =>
                  /\ [ x |-> w.x + 1, y |-> w.y, cell |-> BlankCell(cloud.bg) ]
                        \in tick.rain_written
                  /\ DrawnCells[w.y * main_frame.width + w.x + 2] = BlankCell(cloud.bg)

\* In full-width mode a pass of rain has spawned a droplet and written its
\* first glyph in column 0 of a frame two columns wide.
C34_Witness ==
    /\ tick.rained /\ cloud.full_width
    /\ \E i \in tick.spawned :
          \E w \in tick.rain_written :
              /\ w.cell.ch # " "
              /\ w.x = droplets[i].bound_col
              /\ w.x + 1 < main_frame.width

\* A step that is a call of Cloud::reset which returned: neither a pass of
\* rain nor the pause key, which flips `pause`.
ResetStep ==
    /\ tick' = NoTick
    /\ cloud'.pause = cloud.pause
    /\ cloud.fault = "none" /\ cloud'.fault = "none"

\* C35: after reset(cols, lines) the pool has round(1.5 * cols) droplets, none
\* alive, every column has a count of 0 and may spawn, last_spawn_time and the
\* start of the glitch window are the instant of the reset and the full redraw
\* is asked for; the request stays until the next pass of rain that is not
\* paused, which clears the frame before it draws and ends with the request
\* cleared.
C35_ResetStartsAfresh ==
    [][ /\ ResetStep =>
              /\ cloud'.num_droplets * 2 = 3 * cloud'.cols + (cloud'.cols % 2)
              /\ DOMAIN droplets' = 0 .. cloud'.num_droplets - 1
              /\ \A i \in DOMAIN droplets' : droplets'[i] = NewDroplet
              /\ DOMAIN col_stat' = 0 .. cloud'.cols - 1
              /\ \A col \in DOMAIN col_stat' :
                    col_stat'[col].num_droplets = 0 /\ col_stat'[col].can_spawn
              /\ cloud'.last_spawn_time = clock'
              /\ cloud'.last_glitch_time = clock'
              /\ cloud'.force_draw_everything
        /\ (cloud.force_draw_everything /\ ~tick'.rained /\ cloud'.fault = "none")
              => cloud'.force_draw_everything
        /\ tick'.rained =>
              /\ tick'.draw_everything = cloud.force_draw_everything
              /\ ~cloud'.force_draw_everything
              /\ tick'.draw_everything =>
                    \A y \in 0 .. main_frame'.height - 1 :
                    \A x \in 0 .. main_frame'.width - 1 :
                        (\A w \in main_frame'.written : w.x # x \/ w.y # y)
                        => main_frame'.cells[y * main_frame'.width + x + 1]
                              = BlankCell(NoColor)
      ]_vars

\* A reset has come over a rain with an alive droplet and a column that could
\* not spawn, some time after the start.
C35_Witness ==
    /\ tick = NoTick /\ ~cloud.pause
    /\ cloud.fault = "none" /\ cloud.force_draw_everything
    /\ clock > 0
    /\ cloud.last_spawn_time = clock /\ cloud.last_glitch_time = clock
    /\ \A i \in DOMAIN droplets : droplets[i] = NewDroplet
    /\ \E cell \in { main_frame.cells[k] : k \in DOMAIN main_frame.cells } : cell.ch # " "

\* The columns of the runs under a fair frame loop.
LiveCols == { 0 }

\* Column col has had droplets and none bound to it is alive.
AllDied(col) ==
    /\ col_stat[col].num_droplets > 0
    /\ \A i \in DOMAIN droplets : droplets[i].bound_col = col => ~droplets[i].is_alive

C37_BackgroundEverywhere ==
    tick.rained =>
        \A k \in DOMAIN main_frame.cells : main_frame.cells[k].bg = cloud.bg

\* What fill_droplet gives a droplet.
Parameters(d) ==
    << d.bound_col, d.end_line, d.length, d.char_pool_idx, d.time_to_linger,
       d.chars_per_sec >>

\* C38: a call of spawn_droplets initialises only slots that were not alive
\* and leaves the parameters of the alive droplets as they were; within one
\* call each column receives at most one droplet, and the count of each column
\* goes up by the number of slots initialised for it, so that no slot is
\* initialised twice.
C38_SpawnTakesDormantSlots ==
    [][ tick'.rained =>
          /\ \A i \in tick'.spawned :
                /\ ~droplets[i].is_alive
                /\ droplets'[i].last_time = clock'
          /\ \A i \in DOMAIN droplets \ tick'.spawned :
                droplets[i].is_alive => Parameters(droplets'[i]) = Parameters(droplets[i])
          /\ \A col \in DOMAIN col_stat :
                LET n == Cardinality({ i \in tick'.spawned : droplets'[i].bound_col = col })
                IN  /\ n <= 1
                    /\ col_stat'[col].num_droplets = col_stat[col].num_droplets + n
      ]_vars

\* A call of spawn_droplets has passed over an alive slot and initialised the
\* next one.
C38_Witness ==
    /\ tick.rained
    /\ \E i \in tick.spawned :
          \E j \in tick.advanced \ tick.spawned :
              j < i /\ droplets[j].is_alive /\ droplets[j].last_time = clock

\* C39: in every state, under any interleaving of ticks that spawn, the async
\* key, the Up and Down keys and the space key, the speed of every alive
\* droplet is the speed factor of the column it is bound to times the glyphs
\* per second of the cloud; with async mode off every column has the factor
\* 1.0, and the alive droplets of one column have one speed.
ColumnSpeed(col) == (col_stat[col].max_speed_pct * cloud.chars_per_sec) \div Milli
C39_SpeedFollowsColumn ==
    /\ \A i \in DOMAIN droplets :
          droplets[i].is_alive =>
              /\ droplets[i].bound_col \in DOMAIN col_stat
              /\ droplets[i].chars_per_sec = ColumnSpeed(droplets[i].bound_col)
    /\ ~cloud.async_mode =>
          /\ \A col \in DOMAIN col_stat : col_stat[col].max_speed_pct = Milli
          /\ \A i, j \in DOMAIN droplets :
                (/\ droplets[i].is_alive /\ droplets[j].is_alive
                 /\ droplets[i].bound_col = droplets[j].bound_col)
                => droplets[i].chars_per_sec = droplets[j].chars_per_sec
\* A key has changed the speed of droplets that were raining: after the Down
\* key in async mode, two alive droplets in columns of different factors.
C39_Witness ==
    /\ cloud.async_mode
    /\ cloud.chars_per_sec = MinSpeed
    /\ tick = NoTick
    /\ \E i, j \in DOMAIN droplets :
          /\ droplets[i].is_alive /\ droplets[j].is_alive
          /\ droplets[i].head_put_line > 0
          /\ col_stat[droplets[i].bound_col].max_speed_pct = Milli
          /\ col_stat[droplets[j].bound_col].max_speed_pct < Milli
          /\ droplets[i].chars_per_sec > droplets[j].chars_per_sec

\* C40: under any interleaving of pauses, resumes, resets and ticks, when a
\* tick that is not paused begins, last_spawn_time and the last_time of every
\* alive droplet are not later than the instant the tick reads.
C40_NoFutureTimestamps ==
    [][ tick'.rained =>
          /\ cloud.last_spawn_time <= clock'
          /\ \A i \in DOMAIN droplets :
                droplets[i].is_alive => droplets[i].last_time <= clock' ]_vars
====
